---- MODULE Spec2Model ----
(***************************************************************************)
(* A model of the JNRRD reader and writer (python/jnrrd/reader.py and      *)
(* python/jnrrd/writer.py).                                                *)
(*                                                                         *)
(* Text is a sequence of one-character strings; a file is a sequence of    *)
(* byte values.  A JSON value is a record of one fixed shape, so that any  *)
(* two values can be compared:                                             *)
(*     k : "null" | "num" | "str" | "obj" | "arr"                          *)
(*     n : the number of a "num"                                           *)
(*     s : the characters of a "str"                                       *)
(*     m : the mapping of an "obj", a function from keys (text) to values  *)
(*     e : the elements of an "arr"                                        *)
(* "num" stands for any JSON primitive that is not a string and not null.  *)
(* Python's dict equality ignores insertion order, and so does a function; *)
(* where the order of a dict matters (the header, whose order is the order *)
(* of the lines) the dict is a sequence of [key, val].  The members of a   *)
(* nested object are visited in the order KeysInOrder gives.               *)
(*                                                                         *)
(* Specifications, each over its own part of the state:                    *)
(*   SpecMerge     _set_nested_value called repeatedly on one dictionary   *)
(*   SpecHeader    read_header's loop over records, then the merge         *)
(*   SpecFlat      write() of an extension tree, then read()               *)
(*   SpecFile      write() or write_detached(), data cut short, read()     *)
(*   SpecDetached  write_detached() at paths of every kind, then read()    *)
(*   SpecScan      a file made line by line, then read_header()            *)
(*   SpecTypes     write() of arrays of every element type, then read()    *)
(*   SpecFields    a file made from the required fields, then read()       *)
(*   SpecRecords   records unflattened by read_header, then flattened      *)
(*   SpecPaths     _set_nested_value called with malformed paths           *)
(*   SpecIndex     _set_nested_value called with chains of index segments  *)
(*   SpecKeys      read_header's loop over namespaced and plain keys       *)
(*   SpecArrays    _flatten_extensions called on trees that hold arrays    *)
(*   SpecLayout    write() or write_detached(), then read_header()         *)
(*   SpecSkip      write_detached() with line_skip and byte_skip, read()   *)
(*   SpecHex       a hex data file edited by hand, then read()             *)
(*   SpecPrepare   write() of headers that lack or carry fields            *)
(*   SpecAgain     write, read, write of what was read, read again         *)
(***************************************************************************)
EXTENDS Integers, Sequences, FiniteSets, TLC

VARIABLES
    tree,       \* SpecMerge: the namespace dictionary handed to _set_nested_value
    prev,       \* SpecMerge: that dictionary before the last call
    log,        \* SpecMerge: the calls made so far, <<path, value>> each
    lastOk,     \* SpecMerge: FALSE when the last call raised
    lines,      \* SpecHeader: the records of the header lines scanned, in file order
    header,     \* SpecHeader: read_header's local dict "header"
    result,     \* SpecHeader: what read_header returned
    hpc,        \* SpecHeader: "scan" inside the loop, "done" once returned
    emitted,    \* SpecRecords: what _flatten_extensions returned for result
    fs,         \* file specifications: the file system, location -> bytes
    wrote,      \* file specifications: the call that made the files, and its outcome
    got,        \* file specifications: what the read returned
    phase       \* file specifications: "new", "written", "read", "rewritten", "reread"

mergeVars == <<tree, prev, log, lastOk>>

headerVars == <<lines, header, result, hpc, emitted>>

fileVars == <<fs, wrote, got, phase>>

vars ==
    <<tree, prev, log, lastOk, lines, header, result, hpc, emitted, fs, wrote, got, phase>>

---------------------------------------------------------------------------
(* JSON values *)

Null == [k |-> "null", n |-> 0, s |-> <<>>, m |-> <<>>, e |-> <<>>]

Num(n) == [k |-> "num", n |-> n, s |-> <<>>, m |-> <<>>, e |-> <<>>]

Str(s) == [k |-> "str", n |-> 0, s |-> s, m |-> <<>>, e |-> <<>>]

Obj(m) == [k |-> "obj", n |-> 0, s |-> <<>>, m |-> m, e |-> <<>>]

Arr(e) == [k |-> "arr", n |-> 0, s |-> <<>>, m |-> <<>>, e |-> e]

EmptyDict == [x \in {} |-> Null]

\* d[key] = v on a Python dict
DictSet(d, key, v) == [x \in DOMAIN d \cup {key} |-> IF x = key THEN v ELSE d[x]]

\* the dict literal {k1: v1}, {k1: v1, k2: v2}
Dict1(k1, v1) == DictSet(EmptyDict, k1, v1)

Dict2(k1, v1, k2, v2) == DictSet(Dict1(k1, v1), k2, v2)

---------------------------------------------------------------------------
(* Text helpers *)

Digits == {"0", "1", "2", "3", "4", "5", "6", "7", "8", "9"}

DigitVal(c) ==
    CASE c = "0" -> 0 [] c = "1" -> 1 [] c = "2" -> 2 [] c = "3" -> 3
      [] c = "4" -> 4 [] c = "5" -> 5 [] c = "6" -> 6 [] c = "7" -> 7
      [] c = "8" -> 8 [] c = "9" -> 9

\* int() of the decimal digits p[i], ..., p[j-1]
RECURSIVE IntOf(_, _, _)
IntOf(p, i, j) ==
    IF i >= j THEN 0 ELSE IntOf(p, i, j - 1) * 10 + DigitVal(p[j - 1])

\* the decimal digits of n >= 0, as str(n) and json.dumps(n) write them
RECURSIVE DecimalChars(_)
DecimalChars(n) ==
    IF n < 10 THEN <<CHOOSE c \in Digits : DigitVal(c) = n>>
    ELSE DecimalChars(n \div 10) \o <<CHOOSE c \in Digits : DigitVal(c) = n % 10>>

\* the printable ASCII characters, code 32 first (the two characters that
\* cannot be written in a string here are spelled out)
Printable ==
    <<" ", "!", "\"", "#", "$", "%", "&", "'", "(", ")", "*", "+", ",", "-", ".", "/",
      "0", "1", "2", "3", "4", "5", "6", "7", "8", "9", ":", ";", "<", "=", ">", "?",
      "@", "A", "B", "C", "D", "E", "F", "G", "H", "I", "J", "K", "L", "M", "N", "O",
      "P", "Q", "R", "S", "T", "U", "V", "W", "X", "Y", "Z", "[", "backslash", "]", "^", "_",
      "backtick", "a", "b", "c", "d", "e", "f", "g", "h", "i", "j", "k", "l", "m", "n", "o",
      "p", "q", "r", "s", "t", "u", "v", "w", "x", "y", "z", "{", "|", "}", "~">>

\* str.encode('utf-8') of one ASCII character
Ord(c) ==
    IF c = "\n" THEN 10
    ELSE 31 + (CHOOSE j \in 1..Len(Printable) : Printable[j] = c)

\* bytes.decode of one byte; "other" is a byte that is no printable ASCII
\* character and no newline
Chr(b) ==
    IF b = 10 THEN "\n"
    ELSE IF b >= 32 /\ b <= 126 THEN Printable[b - 31]
    ELSE "other"

Encode(text) == [j \in 1..Len(text) |-> Ord(text[j])]

Decode(bytes) == [j \in 1..Len(bytes) |-> Chr(bytes[j])]

\* ', '.join(parts)
RECURSIVE JoinWith(_, _)
JoinWith(parts, sep) ==
    IF parts = <<>> THEN <<>>
    ELSE IF Len(parts) = 1 THEN parts[1]
    ELSE parts[1] \o sep \o JoinWith(Tail(parts), sep)

\* the keys of a dict in the order the model walks them (a..z, shorter first)
CharRank(c) == CHOOSE j \in 1..Len(Printable) : Printable[j] = c

RECURSIVE KeyLess(_, _)
KeyLess(x, y) ==
    IF x = <<>> THEN y # <<>>
    ELSE IF y = <<>> THEN FALSE
    ELSE IF x[1] # y[1] THEN CharRank(x[1]) < CharRank(y[1])
    ELSE KeyLess(Tail(x), Tail(y))

RECURSIVE KeysInOrder(_)
KeysInOrder(S) ==
    IF S = {} THEN <<>>
    ELSE LET first == CHOOSE x \in S : \A y \in S \ {x} : KeyLess(x, y)
         IN  <<first>> \o KeysInOrder(S \ {first})

---------------------------------------------------------------------------
(* json.dumps with the default separators, on the values of the model *)

RECURSIVE JsonDumps(_)
JsonDumps(v) ==
    CASE v.k = "null" -> <<"n", "u", "l", "l">>
      [] v.k = "num" -> DecimalChars(v.n)
      [] v.k = "str" -> <<"\"">> \o v.s \o <<"\"">>
      [] v.k = "arr" ->
            <<"[">> \o JoinWith([j \in 1..Len(v.e) |-> JsonDumps(v.e[j])], <<",", " ">>)
                \o <<"]">>
      [] v.k = "obj" ->
            LET keys == KeysInOrder(DOMAIN v.m) IN
            <<"{">> \o JoinWith([j \in 1..Len(keys) |->
                                    <<"\"">> \o keys[j] \o <<"\"", ":", " ">>
                                        \o JsonDumps(v.m[keys[j]])],
                                <<",", " ">>)
                \o <<"}">>

\* json.dumps({key: value}).encode('utf-8') + b'\n'
RecordLine(key, value) ==
    Encode(<<"{", "\"">> \o key \o <<"\"", ":", " ">> \o JsonDumps(value) \o <<"}", "\n">>)

---------------------------------------------------------------------------
(* json.loads on text t.  A parse from position i returns                  *)
(*   [ok, v, next, keys]: the value, the position after it and, for an     *)
(*   object, its keys in the order they were first seen.                   *)
(* Strings hold no escapes and numbers are unsigned integers; true and     *)
(* false are the primitives 1 and 0.                                       *)

JsonWhite == {" ", "\n", "\t", "\r"}

RECURSIVE SkipWhite(_, _)
SkipWhite(t, i) == IF i <= Len(t) /\ t[i] \in JsonWhite THEN SkipWhite(t, i + 1) ELSE i

JsonFail == [ok |-> FALSE, v |-> Null, next |-> 0, keys |-> <<>>]

JsonGot(v, next) == [ok |-> TRUE, v |-> v, next |-> next, keys |-> <<>>]

\* the closing quote of the string whose first character is at i, 0 if none
RECURSIVE StringEnd(_, _)
StringEnd(t, i) ==
    IF i > Len(t) \/ t[i] \in {"backslash", "\n", "other"} THEN 0
    ELSE IF t[i] = "\"" THEN i
    ELSE StringEnd(t, i + 1)

\* the position after the digits that start at i
RECURSIVE NumberEnd(_, _)
NumberEnd(t, i) == IF i <= Len(t) /\ t[i] \in Digits THEN NumberEnd(t, i + 1) ELSE i

HasAt(t, i, word) == i + Len(word) - 1 <= Len(t) /\ SubSeq(t, i, i + Len(word) - 1) = word

RECURSIVE ParseValue(_, _)
RECURSIVE ParseElements(_, _, _)
RECURSIVE ParseMembers(_, _, _, _)

\* the elements after '[' or ',' (i is at the next element)
ParseElements(t, i, acc) ==
    LET r == ParseValue(t, SkipWhite(t, i))
        j == SkipWhite(t, r.next)
    IN  IF ~r.ok \/ j > Len(t) THEN JsonFail
        ELSE IF t[j] = "]" THEN JsonGot(Arr(Append(acc, r.v)), j + 1)
        ELSE IF t[j] = "," THEN ParseElements(t, j + 1, Append(acc, r.v))
        ELSE JsonFail

\* the members after '{' or ',' (i is at the next key)
ParseMembers(t, i, m, keys) ==
    LET q == SkipWhite(t, i)
        e == IF q <= Len(t) /\ t[q] = "\"" THEN StringEnd(t, q + 1) ELSE 0
        c == SkipWhite(t, e + 1)
        key == SubSeq(t, q + 1, e - 1)
        r == ParseValue(t, SkipWhite(t, c + 1))
        j == SkipWhite(t, r.next)
        keys2 == IF key \in DOMAIN m THEN keys ELSE Append(keys, key)
    IN  IF e = 0 \/ c > Len(t) THEN JsonFail
        ELSE IF t[c] # ":" THEN JsonFail
        ELSE IF ~r.ok \/ j > Len(t) THEN JsonFail
        ELSE IF t[j] = "}"
             THEN [ok |-> TRUE, v |-> Obj(DictSet(m, key, r.v)), next |-> j + 1,
                   keys |-> keys2]
        ELSE IF t[j] = "," THEN ParseMembers(t, j + 1, DictSet(m, key, r.v), keys2)
        ELSE JsonFail

ParseValue(t, i) ==
    IF i > Len(t) THEN JsonFail
    ELSE IF t[i] \in Digits THEN JsonGot(Num(IntOf(t, i, NumberEnd(t, i))), NumberEnd(t, i))
    ELSE IF t[i] = "\""
         THEN IF StringEnd(t, i + 1) = 0 THEN JsonFail
              ELSE JsonGot(Str(SubSeq(t, i + 1, StringEnd(t, i + 1) - 1)),
                           StringEnd(t, i + 1) + 1)
    ELSE IF HasAt(t, i, <<"n", "u", "l", "l">>) THEN JsonGot(Null, i + 4)
    ELSE IF HasAt(t, i, <<"t", "r", "u", "e">>) THEN JsonGot(Num(1), i + 4)
    ELSE IF HasAt(t, i, <<"f", "a", "l", "s", "e">>) THEN JsonGot(Num(0), i + 5)
    ELSE IF t[i] = "["
         THEN IF SkipWhite(t, i + 1) <= Len(t) /\ t[SkipWhite(t, i + 1)] = "]"
              THEN JsonGot(Arr(<<>>), SkipWhite(t, i + 1) + 1)
              ELSE ParseElements(t, i + 1, <<>>)
    ELSE IF t[i] = "{"
         THEN IF SkipWhite(t, i + 1) <= Len(t) /\ t[SkipWhite(t, i + 1)] = "}"
              THEN JsonGot(Obj(EmptyDict), SkipWhite(t, i + 1) + 1)
              ELSE ParseMembers(t, i + 1, EmptyDict, <<>>)
    ELSE JsonFail

\* json.loads(text): a value with nothing but white space around it, or
\* JSONDecodeError (ok = FALSE)
JsonLoads(t) ==
    LET r == ParseValue(t, SkipWhite(t, 1)) IN
    IF r.ok /\ SkipWhite(t, r.next) > Len(t) THEN r ELSE JsonFail

---------------------------------------------------------------------------
(* reader.py, _set_nested_value: the path components (lines 83-90) *)

Field(name) == [t |-> "f", name |-> name, idx |-> 0]

Index(i) == [t |-> "i", name |-> <<>>, idx |-> i]

\* the character class [^\.\[\]]
IsNameChar(c) == c \notin {".", "[", "]"}

\* where the greedy run ([^\.\[\]]+ or \d+) that starts at i ends
RECURSIVE NameEnd(_, _)
NameEnd(p, i) ==
    IF i <= Len(p) /\ IsNameChar(p[i]) THEN NameEnd(p, i + 1) ELSE i

RECURSIVE DigitsEnd(_, _)
DigitsEnd(p, i) ==
    IF i <= Len(p) /\ p[i] \in Digits THEN DigitsEnd(p, i + 1) ELSE i

\* (\w+)\[(\d+)\]: a bracket group counts only right behind a name
BracketAfterName(p, i) ==
    /\ i > 1
    /\ IsNameChar(p[i - 1])
    /\ p[i] = "["
    /\ DigitsEnd(p, i + 1) > i + 1
    /\ DigitsEnd(p, i + 1) <= Len(p)
    /\ p[DigitsEnd(p, i + 1)] = "]"

\* \[(\d+)\] matches at i
BracketAt(p, i) ==
    /\ p[i] = "["
    /\ DigitsEnd(p, i + 1) > i + 1
    /\ DigitsEnd(p, i + 1) <= Len(p)
    /\ p[DigitsEnd(p, i + 1)] = "]"

\* re.finditer(path_pattern, path) from position i: the matches left to
\* right, a character at which neither alternative matches being skipped
RECURSIVE FindIter(_, _)
FindIter(p, i) ==
    IF i > Len(p) THEN <<>>
    ELSE IF IsNameChar(p[i])
         THEN <<Field(SubSeq(p, i, NameEnd(p, i) - 1))>> \o FindIter(p, NameEnd(p, i))
    ELSE IF BracketAt(p, i)
         THEN <<Index(IntOf(p, i + 1, DigitsEnd(p, i + 1)))>>
                  \o FindIter(p, DigitsEnd(p, i + 1) + 1)
    ELSE FindIter(p, i + 1)

ParseComponents(path) == FindIter(path, 1)

---------------------------------------------------------------------------
(* reader.py, _set_nested_value: the walk (lines 92-128).                  *)
(* A call returns [t |-> the dictionary as the call leaves it,            *)
(*                 ok |-> FALSE when the call raised].                     *)

\* while len(current) <= component: current.append(None)
RECURSIVE Pad(_, _)
Pad(e, idx) == IF Len(e) <= idx THEN Pad(Append(e, Null), idx) ELSE e

\* a missing node is always created as a dictionary
FreshAlwaysObject(next) == Obj(EmptyDict)

\* the container created for a missing node, decided by the next component
Fresh(next) == IF next.t = "i" THEN Arr(<<>>) ELSE Obj(EmptyDict)

\* lines 102-107: current[component] after "if current[component] is None"
SlotOrFresh(e, idx, next) == IF e[idx + 1] = Null THEN Fresh(next) ELSE e[idx + 1]

\* lines 110-115: current[component] after "if component not in current"
ChildAlwaysFresh(m, name, next) == Fresh(next)

ChildOrFresh(m, name, next) == IF name \in DOMAIN m THEN m[name] ELSE Fresh(next)

\* lines 123-125: the list after the pad and the assignment
SetIndexNoPad(e, idx, value) ==
    IF idx < Len(e) THEN [e EXCEPT ![idx + 1] = value] ELSE Append(e, value)

SetIndex(e, idx, value) == [Pad(e, idx) EXCEPT ![idx + 1] = value]

RECURSIVE Walk(_, _, _, _)
Walk(cur, comps, i, value) ==
    LET c == comps[i] IN
    IF i = Len(comps)
    THEN \* lines 117-128
         IF c.t = "i"
         THEN IF cur.k # "arr"
              THEN \* line 122: current = [] is a new list that nothing refers to
                   [t |-> cur, ok |-> TRUE]
              ELSE [t |-> Arr(SetIndex(cur.e, c.idx, value)), ok |-> TRUE]
         ELSE IF cur.k = "obj"
              THEN [t |-> Obj(DictSet(cur.m, c.name, value)), ok |-> TRUE]
              ELSE \* item assignment with a str key on a list or a scalar: TypeError
                   [t |-> cur, ok |-> FALSE]
    ELSE \* lines 94-115
         IF c.t = "i"
         THEN IF cur.k # "arr"
              THEN \* line 99: the rest of the walk works on a new list
                   [t |-> cur, ok |-> TRUE]
              ELSE LET padded == Pad(cur.e, c.idx)
                       r == Walk(SlotOrFresh(padded, c.idx, comps[i + 1]),
                                 comps, i + 1, value)
                   IN  [t |-> Arr([padded EXCEPT ![c.idx + 1] = r.t]), ok |-> r.ok]
         ELSE IF cur.k = "obj"
              THEN LET r == Walk(ChildOrFresh(cur.m, c.name, comps[i + 1]),
                                 comps, i + 1, value)
                   IN  [t |-> Obj(DictSet(cur.m, c.name, r.t)), ok |-> r.ok]
              ELSE \* "component not in current" / item access on a list or a
                   \* scalar: TypeError
                   [t |-> cur, ok |-> FALSE]

\* _set_nested_value(obj, path, value); components[-1] of an empty list
\* raises IndexError
SetNestedValue(obj, path, value) ==
    LET comps == ParseComponents(path) IN
    IF comps = <<>> THEN [t |-> obj, ok |-> FALSE]
    ELSE Walk(obj, comps, 1, value)

---------------------------------------------------------------------------
(* A Python dict whose insertion order matters (the header) is a sequence  *)
(* of [key, val] with no key twice.                                        *)

ODHas(od, key) == \E j \in 1..Len(od) : od[j].key = key

ODPos(od, key) == CHOOSE j \in 1..Len(od) : od[j].key = key

ODGet(od, key, default) == IF ODHas(od, key) THEN od[ODPos(od, key)].val ELSE default

\* od[key] = val: a key the dict holds keeps its place
ODSet(od, key, val) ==
    IF ODHas(od, key)
    THEN [od EXCEPT ![ODPos(od, key)] = [key |-> key, val |-> val]]
    ELSE Append(od, [key |-> key, val |-> val])

\* the dict as a mapping, for comparisons that ignore the order
ODMap(od) == [key \in {od[j].key : j \in 1..Len(od)} |-> ODGet(od, key, Null)]

---------------------------------------------------------------------------
(* reader.py, _process_extension_fields (lines 16-66) *)

S_extensions == <<"e", "x", "t", "e", "n", "s", "i", "o", "n", "s">>

S_jnrrd_ext_ == <<"j", "n", "r", "r", "d", "_", "e", "x", "t", "_">>

\* ':' in key
IsExtKey(key) == \E j \in 1..Len(key) : key[j] = ":"

\* the key split at its last ':'
LastColon(key) == CHOOSE j \in 1..Len(key) : key[j] = ":" /\ \A x \in (j + 1)..Len(key) : key[x] # ":"

FirstColon(key) == CHOOSE j \in 1..Len(key) : key[j] = ":" /\ \A x \in 1..(j - 1) : key[x] # ":"

\* prefix, path = key.split(':', 1)
PrefixOf(key) == SubSeq(key, 1, FirstColon(key) - 1)

PathOf(key) == SubSeq(key, FirstColon(key) + 1, Len(key))

\* lines 38-47: the keys without ':', in the header's order
RegularFields(hdr) == SelectSeq(hdr, LAMBDA x : ~IsExtKey(x.key))

\* lines 38-44: the prefixes in the order of their first key
RECURSIVE PrefixesFrom(_, _, _)
PrefixesFrom(hdr, j, acc) ==
    IF j > Len(hdr) THEN acc
    ELSE IF IsExtKey(hdr[j].key) /\ \A x \in 1..Len(acc) : acc[x] # PrefixOf(hdr[j].key)
         THEN PrefixesFrom(hdr, j + 1, Append(acc, PrefixOf(hdr[j].key)))
    ELSE PrefixesFrom(hdr, j + 1, acc)

Prefixes(hdr) == PrefixesFrom(hdr, 1, <<>>)

\* lines 50-53 for one prefix: its fields applied in the dict's order from
\* entry j on; acc is [t, ok], and a call that raises ends the loop
RECURSIVE BuildExtension(_, _, _, _)
BuildExtension(hdr, prefix, j, acc) ==
    IF j > Len(hdr) \/ ~acc.ok THEN acc
    ELSE IF IsExtKey(hdr[j].key) /\ PrefixOf(hdr[j].key) = prefix
         THEN BuildExtension(hdr, prefix, j + 1,
                             SetNestedValue(acc.t, PathOf(hdr[j].key), hdr[j].val))
    ELSE BuildExtension(hdr, prefix, j + 1, acc)

ExtensionOf(hdr, prefix) ==
    BuildExtension(hdr, prefix, 1, [t |-> Obj(EmptyDict), ok |-> TRUE])

\* lines 59-64: the extensions added to the result
RECURSIVE AddExtensions(_, _, _, _)
AddExtensions(hdr, ps, j, acc) ==
    IF j > Len(ps) THEN acc
    ELSE AddExtensions(hdr, ps, j + 1,
                       ODSet(acc, S_jnrrd_ext_ \o ps[j], ExtensionOf(hdr, ps[j]).t))

\* [hdr |-> the dict returned, ok |-> FALSE when _set_nested_value raised]
ProcessExtensionFields(hdr) ==
    LET ps == Prefixes(hdr)
        regular == RegularFields(hdr)
        decl == ODGet(hdr, S_extensions, Obj(EmptyDict))
    IN  IF \E j \in 1..Len(ps) : ~ExtensionOf(hdr, ps[j]).ok
        THEN [hdr |-> <<>>, ok |-> FALSE]
        ELSE IF ps = <<>> THEN [hdr |-> regular, ok |-> TRUE]
        ELSE [hdr |-> AddExtensions(hdr, ps, 1, ODSet(regular, S_extensions, decl)),
              ok |-> TRUE]

---------------------------------------------------------------------------
(* Files.  A file is the sequence of its bytes and a position in it is the  *)
(* number of bytes before it, as f.tell() counts.                           *)

\* the white space bytes.strip() removes
ByteWhite == {9, 10, 11, 12, 13, 32}

\* the least and the greatest member of a set of numbers that is not empty
Least(S) == CHOOSE x \in S : \A y \in S : x <= y

Greatest(S) == CHOOSE x \in S : \A y \in S : y <= x

Strip(b) ==
    LET keep == {j \in 1..Len(b) : b[j] \notin ByteWhite} IN
    IF keep = {} THEN <<>> ELSE SubSeq(b, Least(keep), Greatest(keep))

\* f.tell() after f.readline() at pos
LineEnd(file, pos) ==
    LET ends == {j \in (pos + 1)..Len(file) : file[j] = 10} IN
    IF ends = {} THEN Len(file) ELSE Least(ends)

\* f.seek(pos); f.read()
ReadFrom(file, pos) == SubSeq(file, pos + 1, Len(file))

\* f.seek(pos); f.read(n)
ReadN(file, pos, n) ==
    SubSeq(file, pos + 1, IF pos + n < Len(file) THEN pos + n ELSE Len(file))

\* bytes that are no UTF-8 text: the files of the model hold a byte above
\* 127 only where it starts no valid sequence
InvalidUtf8(b) == \E j \in 1..Len(b) : b[j] >= 128

---------------------------------------------------------------------------
(* posixpath and the file system: a location is the sequence of names from *)
(* the root, every directory named exists, and no path holds '..'          *)

IsAbs(p) == p # <<>> /\ p[1] = "/"

LastSlash(p) ==
    IF \E j \in 1..Len(p) : p[j] = "/"
    THEN CHOOSE j \in 1..Len(p) : p[j] = "/" /\ \A x \in (j + 1)..Len(p) : p[x] # "/"
    ELSE 0

Basename(p) == SubSeq(p, LastSlash(p) + 1, Len(p))

RECURSIVE RStripSlash(_)
RStripSlash(p) ==
    IF p # <<>> /\ p[Len(p)] = "/" THEN RStripSlash(SubSeq(p, 1, Len(p) - 1)) ELSE p

Dirname(p) ==
    LET head == SubSeq(p, 1, LastSlash(p)) IN
    IF RStripSlash(head) = <<>> THEN head ELSE RStripSlash(head)

PathJoin(a, b) ==
    IF IsAbs(b) THEN b
    ELSE IF a = <<>> \/ a[Len(a)] = "/" THEN a \o b
    ELSE a \o <<"/">> \o b

\* the names of a path, without the empty ones and '.'
RECURSIVE PathNames(_, _, _)
PathNames(p, i, cur) ==
    LET done == IF cur = <<>> \/ cur = <<".">> THEN <<>> ELSE <<cur>> IN
    IF i > Len(p) THEN done
    ELSE IF p[i] = "/" THEN done \o PathNames(p, i + 1, <<>>)
    ELSE PathNames(p, i + 1, Append(cur, p[i]))

\* the working directory of the process
Cwd == <<<<"w">>>>

\* the location open(p) names
Loc(p) == IF IsAbs(p) THEN PathNames(p, 1, <<>>) ELSE Cwd \o PathNames(p, 1, <<>>)

NoFiles == [x \in {} |-> <<>>]

\* open(p, 'wb') ... write(bytes)
FsPut(files, p, bytes) ==
    [x \in DOMAIN files \cup {Loc(p)} |-> IF x = Loc(p) THEN bytes ELSE files[x]]

FsHas(files, p) == Loc(p) \in DOMAIN files

---------------------------------------------------------------------------
(* reader.py, read_header (lines 131-172) *)

S_data_start_pos ==
    <<"_", "_", "d", "a", "t", "a", "_", "s", "t", "a", "r", "t", "_", "p", "o", "s">>

\* header.update(field) for a JSON object: its members in their order
RECURSIVE UpdateMembers(_, _, _, _)
UpdateMembers(hdr, m, keys, j) ==
    IF j > Len(keys) THEN hdr
    ELSE UpdateMembers(ODSet(hdr, keys[j], m[keys[j]]), m, keys, j + 1)

\* dict.update on a sequence: what one element contributes, ok = FALSE for
\* an element that is no pair with a string for its key (the members of an
\* object element come in the order KeysInOrder gives)
PairOf(x) ==
    IF x.k = "arr" /\ Len(x.e) = 2 /\ x.e[1].k = "str"
    THEN [ok |-> TRUE, key |-> x.e[1].s, val |-> x.e[2]]
    ELSE IF x.k = "str" /\ Len(x.s) = 2
    THEN [ok |-> TRUE, key |-> <<x.s[1]>>, val |-> Str(<<x.s[2]>>)]
    ELSE IF x.k = "obj" /\ Cardinality(DOMAIN x.m) = 2
    THEN [ok |-> TRUE, key |-> KeysInOrder(DOMAIN x.m)[1],
          val |-> Str(KeysInOrder(DOMAIN x.m)[2])]
    ELSE [ok |-> FALSE, key |-> <<>>, val |-> Null]

RECURSIVE UpdatePairs(_, _, _)
UpdatePairs(hdr, e, j) ==
    IF j > Len(e) THEN [ok |-> TRUE, hdr |-> hdr]
    ELSE IF ~PairOf(e[j]).ok THEN [ok |-> FALSE, hdr |-> hdr]
    ELSE UpdatePairs(ODSet(hdr, PairOf(e[j]).key, PairOf(e[j]).val), e, j + 1)

\* line 160, header.update(field): TypeError for a number or null,
\* ValueError for a string that is not empty
HeaderUpdate(hdr, r) ==
    CASE r.v.k = "obj" -> [ok |-> TRUE, hdr |-> UpdateMembers(hdr, r.v.m, r.keys, 1)]
      [] r.v.k = "arr" -> UpdatePairs(hdr, r.v.e, 1)
      [] r.v.k = "str" -> [ok |-> r.v.s = <<>>, hdr |-> hdr]
      [] OTHER -> [ok |-> FALSE, hdr |-> hdr]

\* lines 149-164, from position pos on: [ok, hdr, pos], ok = FALSE when an
\* exception other than JSONDecodeError leaves the loop
RECURSIVE ScanHeader(_, _, _)
ScanHeader(file, pos, hdr) ==
    LET e == LineEnd(file, pos)
        line == Strip(SubSeq(file, pos + 1, e))
        r == JsonLoads(Decode(line))
        u == HeaderUpdate(hdr, r)
    IN  IF line = <<>> THEN [ok |-> TRUE, hdr |-> hdr, pos |-> e]
        ELSE IF InvalidUtf8(line) THEN [ok |-> FALSE, hdr |-> hdr, pos |-> pos]
        ELSE IF ~r.ok THEN [ok |-> TRUE, hdr |-> hdr, pos |-> pos]
        ELSE IF ~u.ok THEN [ok |-> FALSE, hdr |-> hdr, pos |-> pos]
        ELSE ScanHeader(file, e, u.hdr)

\* read_header on the bytes of the file: [ok, hdr, pos]
ReadHeader(file) ==
    LET s == ScanHeader(file, 0, <<>>)
        p == ProcessExtensionFields(s.hdr)
    IN  IF ~s.ok \/ ~p.ok THEN [ok |-> FALSE, hdr |-> <<>>, pos |-> s.pos]
        ELSE [ok |-> TRUE, hdr |-> ODSet(p.hdr, S_data_start_pos, Num(s.pos)),
              pos |-> s.pos]

---------------------------------------------------------------------------
(* numpy arrays: [dtype, shape, vals], vals the elements in C order; a     *)
(* dtype is [name, size, order] with name numpy's name of the type, size   *)
(* its itemsize and order one of "<", ">", "=", "|".  An element is held   *)
(* as the unsigned number its bytes spell, whatever its type.  The host is *)
(* little-endian.                                                          *)

S_int8 == <<"i", "n", "t", "8">>
S_uint8 == <<"u", "i", "n", "t", "8">>
S_int16 == <<"i", "n", "t", "1", "6">>
S_uint16 == <<"u", "i", "n", "t", "1", "6">>
S_int32 == <<"i", "n", "t", "3", "2">>
S_uint32 == <<"u", "i", "n", "t", "3", "2">>
S_int64 == <<"i", "n", "t", "6", "4">>
S_uint64 == <<"u", "i", "n", "t", "6", "4">>
S_float16 == <<"f", "l", "o", "a", "t", "1", "6">>
S_bfloat16 == <<"b", "f", "l", "o", "a", "t", "1", "6">>
S_float32 == <<"f", "l", "o", "a", "t", "3", "2">>
S_float64 == <<"f", "l", "o", "a", "t", "6", "4">>
S_complex64 == <<"c", "o", "m", "p", "l", "e", "x", "6", "4">>
S_complex128 == <<"c", "o", "m", "p", "l", "e", "x", "1", "2", "8">>
S_bool == <<"b", "o", "o", "l">>

\* np.dtype(name).itemsize
ItemSize(name) ==
    CASE name \in {S_int8, S_uint8, S_bool} -> 1
      [] name \in {S_int16, S_uint16, S_float16} -> 2
      [] name \in {S_int32, S_uint32, S_float32} -> 4
      [] name \in {S_int64, S_uint64, S_float64, S_complex64} -> 8
      [] name = S_complex128 -> 16

\* np.dtype(name), in native order
NativeDType(name) ==
    [name |-> name, size |-> ItemSize(name), order |-> IF ItemSize(name) = 1 THEN "|" ELSE "="]

\* dtype.newbyteorder(order): a type of one byte has no order
NewByteOrder(dtype, order) ==
    [dtype EXCEPT !.order = IF dtype.size = 1 THEN "|" ELSE order]
S_little == <<"l", "i", "t", "t", "l", "e">>
S_big == <<"b", "i", "g">>

DType(name, size, order) == [name |-> name, size |-> size, order |-> order]

Array(dtype, shape, vals) == [dtype |-> dtype, shape |-> shape, vals |-> vals]

NoArray == Array(DType(<<>>, 1, "|"), <<>>, <<>>)

RECURSIVE Product(_)
Product(sizes) == IF sizes = <<>> THEN 1 ELSE sizes[1] * Product(Tail(sizes))

\* the size bytes of v, least significant first
RECURSIVE LittleEndian(_, _)
LittleEndian(v, size) ==
    IF size = 0 THEN <<>> ELSE <<v % 256>> \o LittleEndian(v \div 256, size - 1)

\* the number the bytes spell, least significant first
RECURSIVE FromLittleEndian(_)
FromLittleEndian(b) ==
    IF b = <<>> THEN 0
    ELSE IF \A j \in 2..Len(b) : b[j] = 0 THEN b[1]
    ELSE b[1] + 256 * FromLittleEndian(Tail(b))

Reverse(s) == [j \in 1..Len(s) |-> s[Len(s) + 1 - j]]

\* the bytes of one element in the given order
ElementBytes(v, size, order) ==
    IF order = ">" THEN Reverse(LittleEndian(v, size)) ELSE LittleEndian(v, size)

RECURSIVE ConcatAll(_)
ConcatAll(seqs) == IF seqs = <<>> THEN <<>> ELSE seqs[1] \o ConcatAll(Tail(seqs))

\* data.tobytes()
ToBytes(a) ==
    ConcatAll([j \in 1..Len(a.vals) |-> ElementBytes(a.vals[j], a.dtype.size, a.dtype.order)])

\* data.byteswap().tobytes()
SwappedBytes(a) ==
    ConcatAll([j \in 1..Len(a.vals) |->
                ElementBytes(a.vals[j], a.dtype.size, IF a.dtype.order = ">" THEN "<" ELSE ">")])

\* np.frombuffer(buf, dtype): [ok, vals], ValueError when the size of the
\* buffer is no multiple of the element size
FromBuffer(buf, dtype) ==
    IF Len(buf) % dtype.size # 0 THEN [ok |-> FALSE, vals |-> <<>>]
    ELSE [ok |-> TRUE,
          vals |-> [j \in 1..(Len(buf) \div dtype.size) |->
                      LET b == SubSeq(buf, (j - 1) * dtype.size + 1, j * dtype.size) IN
                      FromLittleEndian(IF dtype.order = ">" THEN Reverse(b) ELSE b)]]

DecodeFail == [ok |-> FALSE, data |-> NoArray]

\* 'if sizes: data = data.reshape(sizes)' on the elements vals
Reshaped(vals, dtype, sizes) ==
    IF sizes = <<>> THEN [ok |-> TRUE, data |-> Array(dtype, <<Len(vals)>>, vals)]
    ELSE IF Len(vals) # Product(sizes) THEN DecodeFail
    ELSE [ok |-> TRUE, data |-> Array(dtype, sizes, vals)]

\* 'if sizes: data = data[:total_elements].reshape(sizes)'
ReshapedPrefix(vals, dtype, sizes) ==
    IF sizes = <<>> THEN [ok |-> TRUE, data |-> Array(dtype, <<Len(vals)>>, vals)]
    ELSE [ok |-> TRUE, data |-> Array(dtype, sizes, SubSeq(vals, 1, Product(sizes)))]

\* the truth value of a JSON value
Truthy(v) ==
    CASE v.k = "null" -> FALSE
      [] v.k = "num" -> v.n # 0
      [] v.k = "str" -> v.s # <<>>
      [] v.k = "arr" -> v.e # <<>>
      [] v.k = "obj" -> DOMAIN v.m # {}

\* type_map of _get_numpy_dtype (lines 191-206): the numpy type of each
\* JNRRD type name
ReaderTypeNames ==
    {S_int8, S_uint8, S_int16, S_uint16, S_int32, S_uint32, S_int64, S_uint64, S_float16,
     S_bfloat16, S_float32, S_float64, S_complex64, S_complex128}

\* the table with 'float32': np.float16
ReaderTypeMapHalf(jnrrd_type) ==
    IF jnrrd_type \in {S_bfloat16, S_float32} THEN S_float16 ELSE jnrrd_type

ReaderTypeMap(jnrrd_type) == IF jnrrd_type = S_bfloat16 THEN S_float16 ELSE jnrrd_type

\* reader.py, _get_numpy_dtype (lines 175-222): [ok, dtype]
GetNumpyDtype(jnrrd_type, endian) ==
    LET dtype == NativeDType(ReaderTypeMap(jnrrd_type.s)) IN
    IF jnrrd_type.k # "str" \/ jnrrd_type.s \notin ReaderTypeNames
    THEN [ok |-> FALSE, dtype |-> NoArray.dtype]
    ELSE IF ~Truthy(endian) THEN [ok |-> TRUE, dtype |-> dtype]
    ELSE IF endian.k = "str" /\ endian.s = S_little
    THEN [ok |-> TRUE, dtype |-> NewByteOrder(dtype, "<")]
    ELSE IF endian.k = "str" /\ endian.s = S_big
    THEN [ok |-> TRUE, dtype |-> NewByteOrder(dtype, ">")]
    ELSE [ok |-> FALSE, dtype |-> NoArray.dtype]

---------------------------------------------------------------------------
(* The compressors are library code.  A compressed stream is modelled by   *)
(* its framing: the magic bytes of the format, the length of the payload   *)
(* and the payload; decompression raises on anything that is not exactly   *)
(* one such stream.  The optional zstandard and lz4 packages are installed.*)

S_raw == <<"r", "a", "w">>
S_gzip == <<"g", "z", "i", "p">>
S_gz == <<"g", "z">>
S_bzip2 == <<"b", "z", "i", "p", "2">>
S_bz2 == <<"b", "z", "2">>
S_zstd == <<"z", "s", "t", "d">>
S_lz4 == <<"l", "z", "4">>
S_ascii == <<"a", "s", "c", "i", "i">>
S_text == <<"t", "e", "x", "t">>
S_txt == <<"t", "x", "t">>
S_hex == <<"h", "e", "x">>

Magic(codec) ==
    CASE codec = S_gzip -> <<31, 139>>
      [] codec = S_bzip2 -> <<66, 90>>
      [] codec = S_zstd -> <<40, 181>>
      [] codec = S_lz4 -> <<4, 34>>

Compress(codec, bytes) == Magic(codec) \o <<Len(bytes)>> \o bytes

\* [ok, out]
Decompress(codec, stream) ==
    IF Len(stream) >= 3 /\ SubSeq(stream, 1, 2) = Magic(codec)
          /\ Len(stream) = 3 + stream[3]
    THEN [ok |-> TRUE, out |-> SubSeq(stream, 4, Len(stream))]
    ELSE [ok |-> FALSE, out |-> <<>>]

---------------------------------------------------------------------------
(* reader.py, the decoders (lines 304-652): [ok, data], ok = FALSE when    *)
(* the decoder raises                                                      *)

\* lines 304-343 without the length check of lines 333-334
ReadRawDataNoCheck(file, pos, dtype, sizes) ==
    LET buf == ReadN(file, pos, Product(sizes) * dtype.size)
        fb == FromBuffer(buf, dtype)
    IN  IF ~fb.ok THEN DecodeFail ELSE Reshaped(fb.vals, dtype, sizes)

\* _read_raw_data, lines 304-343
ReadRawData(file, pos, dtype, sizes) ==
    LET need == Product(sizes) * dtype.size
        buf == ReadN(file, pos, need)
    IN  IF Len(buf) < need THEN DecodeFail
        ELSE Reshaped(FromBuffer(buf, dtype).vals, dtype, sizes)

\* _read_gzip_data, lines 346-389, for any of the four codecs
ReadCompressedData(codec, file, pos, dtype, sizes) ==
    LET d == Decompress(codec, ReadFrom(file, pos))
        fb == FromBuffer(d.out, dtype)
    IN  IF ~d.ok THEN DecodeFail
        ELSE IF Len(d.out) < Product(sizes) * dtype.size THEN DecodeFail
        ELSE IF ~fb.ok THEN DecodeFail
        ELSE Reshaped(fb.vals, dtype, sizes)

ReadGzipData(file, pos, dtype, sizes) == ReadCompressedData(S_gzip, file, pos, dtype, sizes)

ReadBzip2Data(file, pos, dtype, sizes) == ReadCompressedData(S_bzip2, file, pos, dtype, sizes)

ReadZstdData(file, pos, dtype, sizes) == ReadCompressedData(S_zstd, file, pos, dtype, sizes)

ReadLz4Data(file, pos, dtype, sizes) == ReadCompressedData(S_lz4, file, pos, dtype, sizes)

\* the white space str.split() and str.splitlines() break ASCII text at
StrWhite == {9, 10, 11, 12, 13, 28, 29, 30, 31, 32}

\* the members of a set of numbers in ascending order
RECURSIVE Ascending(_)
Ascending(S) == IF S = {} THEN <<>> ELSE <<Least(S)>> \o Ascending(S \ {Least(S)})

\* the white-space separated tokens of the text
Tokens(text) ==
    LET black(j) == j >= 1 /\ j <= Len(text) /\ text[j] \notin StrWhite
        starts == Ascending({j \in 1..Len(text) : black(j) /\ ~black(j - 1)})
        stops == Ascending({j \in 1..Len(text) : black(j) /\ ~black(j + 1)})
    IN  [x \in 1..Len(starts) |-> SubSeq(text, starts[x], stops[x])]

IsDigitByte(b) == b >= 48 /\ b <= 57

\* int(token) for a token of digits
RECURSIVE IntOfBytes(_)
IntOfBytes(tok) ==
    IF tok = <<>> THEN 0
    ELSE IntOfBytes(SubSeq(tok, 1, Len(tok) - 1)) * 10 + (tok[Len(tok)] - 48)

\* _read_ascii_data, lines 546-603; a token that is no number of the
\* element type raises
ReadAsciiData(file, pos, dtype, sizes) ==
    LET text == ReadFrom(file, pos)
        toks == Tokens(text)
        vals == [j \in 1..Len(toks) |-> IntOfBytes(toks[j])]
    IN  IF InvalidUtf8(text) THEN DecodeFail
        ELSE IF \E j \in 1..Len(toks) : \E x \in 1..Len(toks[j]) : ~IsDigitByte(toks[j][x])
        THEN DecodeFail
        ELSE IF dtype.size <= 2
                  /\ \E j \in 1..Len(vals) : vals[j] >= (IF dtype.size = 1 THEN 256 ELSE 65536)
        THEN DecodeFail
        ELSE IF Len(vals) < Product(sizes) THEN DecodeFail
        ELSE ReshapedPrefix(vals, dtype, sizes)

\* c.isalnum() for an ASCII character
IsAlnumByte(b) == IsDigitByte(b) \/ (b >= 65 /\ b <= 90) \/ (b >= 97 /\ b <= 122)

IsHexByte(b) == IsDigitByte(b) \/ (b >= 65 /\ b <= 70) \/ (b >= 97 /\ b <= 102)

HexVal(b) == IF IsDigitByte(b) THEN b - 48 ELSE IF b >= 97 THEN b - 87 ELSE b - 55

\* bytes.fromhex on text without white space: [ok, out]
FromHex(h) ==
    IF Len(h) % 2 # 0 \/ \E j \in 1..Len(h) : ~IsHexByte(h[j])
    THEN [ok |-> FALSE, out |-> <<>>]
    ELSE [ok |-> TRUE,
          out |-> [j \in 1..(Len(h) \div 2) |-> HexVal(h[2 * j - 1]) * 16 + HexVal(h[2 * j])]]

\* _read_hex_data, lines 606-652
ReadHexData(file, pos, dtype, sizes) ==
    LET text == ReadFrom(file, pos)
        bin == FromHex(SelectSeq(text, IsAlnumByte))
        fb == FromBuffer(bin.out, dtype)
    IN  IF InvalidUtf8(text) THEN DecodeFail
        ELSE IF ~bin.ok \/ ~fb.ok THEN DecodeFail
        ELSE IF Len(fb.vals) < Product(sizes) THEN DecodeFail
        ELSE ReshapedPrefix(fb.vals, dtype, sizes)

---------------------------------------------------------------------------
(* reader.py, _read_data (lines 225-301) and read (lines 655-690).  The    *)
(* result of a read is                                                     *)
(*   [ok, stage, hdr, data, loc, pos, need]:                               *)
(* stage is where it raised ("open", "header", "fields", "decode") or      *)
(* "done"; loc, pos and need are the file the decoder was given, the       *)
(* position it was given and the bytes product(sizes) * itemsize.          *)

S_jnrrd == <<"j", "n", "r", "r", "d">>
S_0004 == <<"0", "0", "0", "4">>
S_dimension == <<"d", "i", "m", "e", "n", "s", "i", "o", "n">>
S_sizes == <<"s", "i", "z", "e", "s">>
S_type == <<"t", "y", "p", "e">>
S_encoding == <<"e", "n", "c", "o", "d", "i", "n", "g">>
S_endian == <<"e", "n", "d", "i", "a", "n">>
S_data_file == <<"d", "a", "t", "a", "_", "f", "i", "l", "e">>
S_line_skip == <<"l", "i", "n", "e", "_", "s", "k", "i", "p">>
S_byte_skip == <<"b", "y", "t", "e", "_", "s", "k", "i", "p">>

\* header.pop(key, default), the dict that is left
ODDel(od, key) == SelectSeq(od, LAMBDA x : x.key # key)

ReadResult(ok, stage, hdr, data, loc, pos, need) ==
    [ok |-> ok, stage |-> stage, hdr |-> hdr, data |-> data, loc |-> loc, pos |-> pos,
     need |-> need]

Raised(stage, hdr) == ReadResult(FALSE, stage, hdr, NoArray, <<>>, 0, 0)

\* a sizes value the loops 'for size in sizes' and 'if sizes' accept
SizesOk(v) ==
    \/ v.k = "arr" /\ \A j \in 1..Len(v.e) : v.e[j].k = "num"
    \/ v.k = "str" /\ v.s = <<>>
    \/ v.k = "obj" /\ DOMAIN v.m = {}

SizesOf(v) == IF v.k = "arr" THEN [j \in 1..Len(v.e) |-> v.e[j].n] ELSE <<>>

\* no line is read
SkipNoLines(file, pos, n) == pos

\* f.tell() after n calls of f.readline() from pos
RECURSIVE SkipLines(_, _, _)
SkipLines(file, pos, n) == IF n = 0 THEN pos ELSE SkipLines(file, LineEnd(file, pos), n - 1)

\* lines 286-301
DecodeBy(encoding, file, pos, dtype, sizes) ==
    IF encoding.k # "str" THEN DecodeFail
    ELSE IF encoding.s = S_raw THEN ReadRawData(file, pos, dtype, sizes)
    ELSE IF encoding.s \in {S_gzip, S_gz} THEN ReadGzipData(file, pos, dtype, sizes)
    ELSE IF encoding.s \in {S_bzip2, S_bz2} THEN ReadBzip2Data(file, pos, dtype, sizes)
    ELSE IF encoding.s = S_zstd THEN ReadZstdData(file, pos, dtype, sizes)
    ELSE IF encoding.s = S_lz4 THEN ReadLz4Data(file, pos, dtype, sizes)
    ELSE IF encoding.s \in {S_ascii, S_text, S_txt} THEN ReadAsciiData(file, pos, dtype, sizes)
    ELSE IF encoding.s = S_hex THEN ReadHexData(file, pos, dtype, sizes)
    ELSE DecodeFail

IsEncoding(encoding) ==
    /\ encoding.k = "str"
    /\ encoding.s \in {S_raw, S_gzip, S_gz, S_bzip2, S_bz2, S_zstd, S_lz4, S_ascii, S_text,
                       S_txt, S_hex}

\* lines 241-247 without the check of 'dimension'
MissingFieldNoDimension(hdr) == ~ODHas(hdr, S_type) \/ ~ODHas(hdr, S_sizes)

\* lines 241-247: a required field is absent
MissingField(hdr) == ~ODHas(hdr, S_type) \/ ~ODHas(hdr, S_dimension) \/ ~ODHas(hdr, S_sizes)

ReadData(files, filename, hdr) ==
    LET jnrrd_type == ODGet(hdr, S_type, Null)
        sizes == ODGet(hdr, S_sizes, Null)
        encoding == ODGet(hdr, S_encoding, Str(S_raw))
        endian == ODGet(hdr, S_endian, Null)
        start == ODGet(hdr, S_data_start_pos, Num(0))
        detached == ODHas(hdr, S_data_file)
        data_path == ODGet(hdr, S_data_file, Null)
        data_file == IF ~detached THEN filename
                     ELSE IF IsAbs(data_path.s) THEN data_path.s
                     ELSE PathJoin(Dirname(filename), data_path.s)
        line_skip == ODGet(hdr, S_line_skip, Num(0))
        skipping == ODHas(hdr, S_line_skip) /\ detached
        byte_skip == ODGet(hdr, S_byte_skip, Num(0))
        pos1 == IF skipping THEN SkipLines(files[Loc(data_file)], 0, line_skip.n)
                ELSE IF detached THEN 0
                ELSE start.n
        pos == pos1 + byte_skip.n
        dt == GetNumpyDtype(jnrrd_type, endian)
        need == Product(SizesOf(sizes)) * dt.dtype.size
        d == DecodeBy(encoding, files[Loc(data_file)], pos, dt.dtype, SizesOf(sizes))
    IN  IF MissingField(hdr) THEN Raised("fields", hdr)
        ELSE IF detached /\ data_path.k # "str" THEN Raised("fields", hdr)
        ELSE IF skipping /\ ~FsHas(files, data_file) THEN Raised("open", hdr)
        ELSE IF skipping /\ line_skip.k # "num" THEN Raised("fields", hdr)
        ELSE IF byte_skip.k # "num" THEN Raised("fields", hdr)
        ELSE IF ~dt.ok THEN Raised("fields", hdr)
        ELSE IF ~IsEncoding(encoding) THEN Raised("fields", hdr)
        ELSE IF ~FsHas(files, data_file)
        THEN ReadResult(FALSE, "open", hdr, NoArray, Loc(data_file), pos, 0)
        ELSE IF ~SizesOk(sizes) THEN Raised("fields", hdr)
        ELSE IF ~d.ok THEN ReadResult(FALSE, "decode", hdr, NoArray, Loc(data_file), pos, need)
        ELSE ReadResult(TRUE, "done", hdr, d.data, Loc(data_file), pos, need)

\* read(filename) on the file system files
Read(files, filename) ==
    LET h == ReadHeader(files[Loc(filename)])
        popped == ODDel(h.hdr, S_data_start_pos)
    IN  IF ~FsHas(files, filename) THEN Raised("open", <<>>)
        ELSE IF ~h.ok THEN Raised("header", <<>>)
        ELSE ReadData(files, filename, popped)

---------------------------------------------------------------------------
(* writer.py, _flatten_extensions and _flatten_object (lines 15-76).  The  *)
(* members of a nested object are walked in the order KeysInOrder gives.   *)

\* key.startswith('jnrrd_ext_')
IsExtensionField(key) ==
    Len(key) >= Len(S_jnrrd_ext_) /\ SubSeq(key, 1, Len(S_jnrrd_ext_)) = S_jnrrd_ext_

\* not isinstance(item, list): an object counts as a simple value
IsSimpleNoDict(v) == v.k # "arr"

\* not isinstance(item, (dict, list))
IsSimple(v) == v.k \notin {"obj", "arr"}

RECURSIVE FlattenObject(_, _, _, _)
RECURSIVE FlattenMembers(_, _, _, _, _, _)
RECURSIVE FlattenItems(_, _, _, _, _)

\* lines 61-63, the members keys[j], keys[j+1], ... of obj
FlattenMembers(prefix, obj, path, keys, j, flat) ==
    IF j > Len(keys) THEN flat
    ELSE FlattenMembers(prefix, obj, path, keys, j + 1,
                        FlattenObject(prefix, obj.m[keys[j]],
                                      IF path # <<>> THEN path \o <<".">> \o keys[j]
                                      ELSE keys[j],
                                      flat))

\* the items numbered from 1 in their paths
RECURSIVE FlattenItemsFromOne(_, _, _, _, _)
FlattenItemsFromOne(prefix, obj, path, j, flat) ==
    IF j > Len(obj.e) THEN flat
    ELSE FlattenItemsFromOne(prefix, obj, path, j + 1,
                             FlattenObject(prefix, obj.e[j],
                                           path \o <<"[">> \o DecimalChars(j) \o <<"]">>,
                                           flat))

\* lines 71-73, the items obj[j-1], obj[j], ... (j counts from 1)
FlattenItems(prefix, obj, path, j, flat) ==
    IF j > Len(obj.e) THEN flat
    ELSE FlattenItems(prefix, obj, path, j + 1,
                      FlattenObject(prefix, obj.e[j],
                                    path \o <<"[">> \o DecimalChars(j - 1) \o <<"]">>,
                                    flat))

FlattenObject(prefix, obj, path, flat) ==
    IF obj.k = "obj"
    THEN FlattenMembers(prefix, obj, path, KeysInOrder(DOMAIN obj.m), 1, flat)
    ELSE IF obj.k = "arr" /\ \E j \in 1..Len(obj.e) : ~IsSimple(obj.e[j])
    THEN FlattenItems(prefix, obj, path, 1, flat)
    ELSE ODSet(flat, prefix \o <<":">> \o path, obj)

\* lines 37-40, from entry j of the header on
RECURSIVE FlattenFrom(_, _, _)
FlattenFrom(hdr, j, flat) ==
    IF j > Len(hdr) THEN flat
    ELSE IF IsExtensionField(hdr[j].key)
    THEN FlattenFrom(hdr, j + 1,
                     FlattenObject(SubSeq(hdr[j].key, Len(S_jnrrd_ext_) + 1, Len(hdr[j].key)),
                                   hdr[j].val, <<>>, flat))
    ELSE FlattenFrom(hdr, j + 1, flat)

FlattenExtensions(hdr) ==
    FlattenFrom(hdr, 1, SelectSeq(hdr, LAMBDA x : ~IsExtensionField(x.key)))

---------------------------------------------------------------------------
(* writer.py, _get_jnrrd_type, _get_endian_from_dtype, _prepare_header     *)
(* (lines 79-177)                                                          *)

\* type_map of _get_jnrrd_type (lines 96-110): the JNRRD type name of each
\* numpy type
WriterTypes ==
    {S_int8, S_uint8, S_int16, S_uint16, S_int32, S_uint32, S_int64, S_uint64, S_float16,
     S_float32, S_float64, S_complex64, S_complex128}

WriterTypeMap(name) == name

\* [ok, name]: ValueError for a dtype that is not in type_map
GetJnrrdType(dtype) ==
    IF dtype.name \in WriterTypes THEN [ok |-> TRUE, name |-> WriterTypeMap(dtype.name)]
    ELSE [ok |-> FALSE, name |-> <<>>]

GetEndianFromDtype(dtype) == IF dtype.order \in {"<", "="} THEN S_little ELSE S_big

\* 'result[key] = val' whether the key is there or not
ODSetAlways(od, key, val) == ODSet(od, key, val)

\* 'if key not in result: result[key] = val'
ODSetDefault(od, key, val) == IF ODHas(od, key) THEN od ELSE ODSet(od, key, val)

\* [ok, hdr, header]: hdr is the dict returned and header the caller's dict
\* after the call, which 'result = header.copy()' leaves as it was
PrepareHeader(hdr, data, encoding) ==
    LET r1 == ODSetDefault(hdr, S_jnrrd, Str(S_0004))
        r2 == ODSetDefault(r1, S_dimension, Num(Len(data.shape)))
        r3 == ODSetDefault(r2, S_sizes, Arr([j \in 1..Len(data.shape) |-> Num(data.shape[j])]))
        r4 == ODSetDefault(r3, S_type, Str(GetJnrrdType(data.dtype).name))
        r5 == ODSetDefault(r4, S_encoding, Str(encoding))
    IN  [ok |-> ODHas(r3, S_type) \/ GetJnrrdType(data.dtype).ok,
         hdr |-> ODSetDefault(r5, S_endian, Str(GetEndianFromDtype(data.dtype))),
         header |-> hdr]

---------------------------------------------------------------------------
(* writer.py, the encoders (lines 180-352) and write, write_detached       *)
(* (lines 355-527)                                                         *)

\* _write_raw_data, lines 180-198
WriteRawData(data) == IF data.dtype.order = ">" THEN SwappedBytes(data) ELSE ToBytes(data)

WriteGzipData(data) == Compress(S_gzip, ToBytes(data))

WriteBzip2Data(data) == Compress(S_bzip2, ToBytes(data))

WriteZstdData(data) == Compress(S_zstd, ToBytes(data))

WriteLz4Data(data) == Compress(S_lz4, ToBytes(data))

\* the pieces of at most n items a sequence is cut into
RECURSIVE Chunks(_, _)
Chunks(s, n) ==
    IF s = <<>> THEN <<>>
    ELSE IF Len(s) <= n THEN <<s>>
    ELSE <<SubSeq(s, 1, n)>> \o Chunks(SubSeq(s, n + 1, Len(s)), n)

\* _write_ascii_data, lines 306-325: eight values a line
WriteAsciiData(data) ==
    LET chunks == Chunks(data.vals, 8) IN
    ConcatAll([j \in 1..Len(chunks) |->
                 Encode(JoinWith([x \in 1..Len(chunks[j]) |-> DecimalChars(chunks[j][x])],
                                 <<" ">>) \o <<"\n">>)])

HexChars == <<"0", "1", "2", "3", "4", "5", "6", "7", "8", "9", "a", "b", "c", "d", "e", "f">>

\* bytes.hex()
ToHex(bytes) ==
    ConcatAll([j \in 1..Len(bytes) |->
                 <<HexChars[(bytes[j] \div 16) + 1], HexChars[(bytes[j] % 16) + 1]>>])

\* _write_hex_data, lines 328-352: 64 characters a line
WriteHexData(data) ==
    LET chunks == Chunks(ToHex(ToBytes(data)), 64) IN
    ConcatAll([j \in 1..Len(chunks) |-> Encode(chunks[j] \o <<"\n">>)])

\* the dispatch of lines 420-436: [ok, bytes], ValueError for an encoding
\* that is not supported
EncodeData(encoding, data) ==
    IF encoding = S_raw THEN [ok |-> TRUE, bytes |-> WriteRawData(data)]
    ELSE IF encoding \in {S_gzip, S_gz} THEN [ok |-> TRUE, bytes |-> WriteGzipData(data)]
    ELSE IF encoding \in {S_bzip2, S_bz2} THEN [ok |-> TRUE, bytes |-> WriteBzip2Data(data)]
    ELSE IF encoding = S_zstd THEN [ok |-> TRUE, bytes |-> WriteZstdData(data)]
    ELSE IF encoding = S_lz4 THEN [ok |-> TRUE, bytes |-> WriteLz4Data(data)]
    ELSE IF encoding \in {S_ascii, S_text, S_txt}
    THEN [ok |-> TRUE, bytes |-> WriteAsciiData(data)]
    ELSE IF encoding = S_hex THEN [ok |-> TRUE, bytes |-> WriteHexData(data)]
    ELSE [ok |-> FALSE, bytes |-> <<>>]

\* every field in the dict's order, the magic field among them, and the
\* blank line
HeaderBytesInOrder(flat) ==
    ConcatAll([j \in 1..Len(flat) |-> RecordLine(flat[j].key, flat[j].val)]) \o <<10>>

\* lines 403-418: the magic line, the other fields in the dict's order and
\* the blank line
HeaderBytes(flat) ==
    LET others == SelectSeq(flat, LAMBDA x : x.key # S_jnrrd) IN
    (IF ODHas(flat, S_jnrrd) THEN RecordLine(S_jnrrd, ODGet(flat, S_jnrrd, Null)) ELSE <<>>)
        \o ConcatAll([j \in 1..Len(others) |-> RecordLine(others[j].key, others[j].val)])
        \o <<10>>

\* write(filename, header, data, encoding): [ok, files]
Write(files, filename, hdr, data, encoding) ==
    LET prepared == PrepareHeader(hdr, data, encoding)
        head == HeaderBytes(FlattenExtensions(prepared.hdr))
        body == EncodeData(encoding, data)
    IN  IF ~prepared.ok THEN [ok |-> FALSE, files |-> files, header |-> prepared.header]
        ELSE [ok |-> body.ok, files |-> FsPut(files, filename, head \o body.bytes),
              header |-> prepared.header]

\* write_detached(header_file, data_file, header, data, encoding)
WriteDetached(files, header_file, data_file, hdr, data, encoding) ==
    LET prepared == PrepareHeader(hdr, data, encoding)
        named == ODSet(prepared.hdr, S_data_file,
                       Str(IF Dirname(header_file) = Dirname(data_file)
                           THEN Basename(data_file) ELSE data_file))
        head == HeaderBytes(FlattenExtensions(named))
        body == EncodeData(encoding, data)
    IN  IF ~prepared.ok THEN [ok |-> FALSE, files |-> files, header |-> prepared.header]
        ELSE [ok |-> body.ok,
              files |-> FsPut(FsPut(files, header_file, head), data_file, body.bytes),
              header |-> prepared.header]

---------------------------------------------------------------------------
(* The state of the file specifications.  wrote is                         *)
(*   [op, header_file, data_file, hdr, data, encoding, ok, cut, lines,     *)
(*    after]:                                                              *)
(* the call ("write", "write_detached", or "author" for a file made by     *)
(* hand), its arguments, whether it returned, the bytes cut off the data   *)
(* afterwards, the lines of a file made by hand and the caller's header    *)
(* dict as the call left it.                                               *)

Call(op, header_file, data_file, hdr, data, encoding, ok) ==
    [op |-> op, header_file |-> header_file, data_file |-> data_file, hdr |-> hdr,
     data |-> data, encoding |-> encoding, ok |-> ok, cut |-> 0, lines |-> <<>>,
     after |-> hdr]

NoCall == Call("none", <<>>, <<>>, <<>>, NoArray, <<>>, TRUE)

FileIdle ==
    /\ fs = NoFiles
    /\ wrote = NoCall
    /\ got = Raised("open", <<>>)
    /\ phase = "new"

\* write(filename, hdr, data, encoding) on an empty file system
WriteCall(filename, hdr, data, encoding) ==
    /\ phase = "new"
    /\ LET w == Write(fs, filename, hdr, data, encoding) IN
         /\ fs' = w.files
         /\ wrote' = [Call("write", filename, filename, hdr, data, encoding, w.ok)
                         EXCEPT !.after = w.header]
    /\ phase' = "written"
    /\ UNCHANGED <<got, mergeVars, headerVars>>

\* write_detached(header_file, data_file, hdr, data, encoding)
WriteDetachedCall(header_file, data_file, hdr, data, encoding) ==
    /\ phase = "new"
    /\ LET w == WriteDetached(fs, header_file, data_file, hdr, data, encoding) IN
         /\ fs' = w.files
         /\ wrote' = [Call("write_detached", header_file, data_file, hdr, data, encoding,
                              w.ok)
                         EXCEPT !.after = w.header]
    /\ phase' = "written"
    /\ UNCHANGED <<got, mergeVars, headerVars>>

\* read(header_file), of the file written first or of the one written from
\* what was read
ReadCall ==
    /\ phase \in {"written", "rewritten"}
    /\ got' = Read(fs, wrote.header_file)
    /\ phase' = IF phase = "written" THEN "read" ELSE "reread"
    /\ UNCHANGED <<fs, wrote, mergeVars, headerVars>>

---------------------------------------------------------------------------
(* SpecMerge: _set_nested_value called repeatedly on one namespace dict *)

MaxCalls == 3

P_a == <<"a">>
P_ab == <<"a", ".", "b">>
P_abc == <<"a", ".", "b", ".", "c">>
P_i == <<"i">>
P_i1 == <<"i", "[", "1", "]">>
P_i3 == <<"i", "[", "3", "]">>

MergePaths == {P_a, P_ab, P_abc, P_i, P_i1, P_i3}

K_a == <<"a">>
K_b == <<"b">>
K_c == <<"c">>
K_i == <<"i">>

V_bc == Obj(Dict2(K_b, Num(1), K_c, Num(2)))

MergeValues == {Num(1), Null, V_bc, Arr(<<Num(1)>>)}

MergeInit ==
    /\ tree = Obj(EmptyDict)
    /\ prev = Obj(EmptyDict)
    /\ log = <<>>
    /\ lastOk = TRUE

HeaderIdle ==
    /\ lines = <<>>
    /\ header = <<>>
    /\ result = [hdr |-> <<>>, ok |-> TRUE]
    /\ hpc = "scan"
    /\ emitted = <<>>

MergeCall(path, value) ==
    /\ Len(log) < MaxCalls
    /\ LET r == SetNestedValue(tree, path, value) IN
         /\ tree' = r.t
         /\ lastOk' = r.ok
    /\ prev' = tree
    /\ log' = Append(log, <<path, value>>)
    /\ UNCHANGED <<headerVars, fileVars>>

MergeNext == \E path \in MergePaths, value \in MergeValues : MergeCall(path, value)

InitMerge == MergeInit /\ HeaderIdle /\ FileIdle

SpecMerge == InitMerge /\ [][MergeNext]_vars

\* the node found by following comps[i..] from node
RECURSIVE Lookup(_, _, _)
Lookup(node, comps, i) ==
    IF i > Len(comps) THEN [found |-> TRUE, v |-> node]
    ELSE IF comps[i].t = "f"
         THEN IF node.k = "obj" /\ comps[i].name \in DOMAIN node.m
              THEN Lookup(node.m[comps[i].name], comps, i + 1)
              ELSE [found |-> FALSE, v |-> Null]
    ELSE IF node.k = "arr" /\ comps[i].idx < Len(node.e)
         THEN Lookup(node.e[comps[i].idx + 1], comps, i + 1)
         ELSE [found |-> FALSE, v |-> Null]

LastPath == log[Len(log)][1]

LastValue == log[Len(log)][2]

\* new differs from old only at the node comps[i..] addresses and in the
\* containers created or extended to reach it
RECURSIVE Frame(_, _, _, _)
Frame(old, new, comps, i) ==
    LET c == comps[i] IN
    IF old.k = "obj" /\ c.t = "f"
    THEN /\ new.k = "obj"
         /\ DOMAIN old.m \subseteq DOMAIN new.m
         /\ DOMAIN new.m \subseteq DOMAIN old.m \cup {c.name}
         /\ \A key \in DOMAIN old.m \ {c.name} : new.m[key] = old.m[key]
         /\ (i < Len(comps) /\ c.name \in DOMAIN old.m)
               => Frame(old.m[c.name], new.m[c.name], comps, i + 1)
    ELSE IF old.k = "arr" /\ c.t = "i"
    THEN /\ new.k = "arr"
         /\ Len(new.e) >= Len(old.e)
         /\ \A j \in 1..Len(new.e) :
               j # c.idx + 1 => new.e[j] = IF j <= Len(old.e) THEN old.e[j] ELSE Null
         /\ (i < Len(comps) /\ c.idx < Len(old.e) /\ old.e[c.idx + 1] # Null)
               => Frame(old.e[c.idx + 1], new.e[c.idx + 1], comps, i + 1)
    ELSE new = old

(* C5: merging one (path, value) record changes only the node the path     *)
(* addresses and the containers created or extended to reach it: every     *)
(* other key of every object on the way keeps its value, and a record for  *)
(* a leaf that is already set replaces that leaf with the new value.       *)
C5_MergeFrame ==
    log # <<>> =>
        LET comps == ParseComponents(LastPath) IN
        /\ Frame(prev, tree, comps, 1)
        /\ Lookup(prev, comps, 1).found
              => (lastOk /\ Lookup(tree, comps, 1) = [found |-> TRUE, v |-> LastValue])

\* a.b was set beside a.c, and the last call replaced a.b alone
C5_Witness ==
    /\ log # <<>>
    /\ LastPath = P_ab
    /\ LastValue = Null
    /\ K_a \in DOMAIN prev.m
    /\ prev.m[K_a] = V_bc
    /\ tree.m[K_a] = Obj(Dict2(K_b, Null, K_c, Num(2)))

IndexPaths == {P_i1, P_i3}

IdxOf(path) == ParseComponents(path)[2].idx

\* the calls of the log that assign i[idx]
CallsAt(idx) == {j \in 1..Len(log) : log[j][1] \in IndexPaths /\ IdxOf(log[j][1]) = idx}

AssignedIdx == {IdxOf(log[j][1]) : j \in {x \in 1..Len(log) : log[x][1] \in IndexPaths}}

MaxOf(S) == CHOOSE x \in S : \A y \in S : y <= x

(* C7: a terminal index assignment i[k] on an array of length n <= k       *)
(* extends it to length k+1 with null in the new slots that were not       *)
(* assigned; after terminal index assignments alone, in any order, the     *)
(* length is the largest assigned index plus one, an assigned slot holds   *)
(* the value last assigned to it and every other slot is null.             *)
C7_SparseIndex ==
    /\ (/\ log # <<>>
        /\ LastPath \in IndexPaths
        /\ K_i \in DOMAIN prev.m
        /\ prev.m[K_i].k = "arr"
        /\ Len(prev.m[K_i].e) <= IdxOf(LastPath))
          => /\ lastOk
             /\ tree.m[K_i].k = "arr"
             /\ Len(tree.m[K_i].e) = IdxOf(LastPath) + 1
             /\ tree.m[K_i].e[IdxOf(LastPath) + 1] = LastValue
             /\ \A j \in 1..IdxOf(LastPath) :
                   tree.m[K_i].e[j] =
                       IF j <= Len(prev.m[K_i].e) THEN prev.m[K_i].e[j] ELSE Null
    /\ (/\ AssignedIdx # {}
        /\ \A j \in 1..Len(log) : log[j][1] # P_i)
          => /\ K_i \in DOMAIN tree.m
             /\ tree.m[K_i].k = "arr"
             /\ Len(tree.m[K_i].e) = MaxOf(AssignedIdx) + 1
             /\ \A s \in 0..MaxOf(AssignedIdx) :
                   tree.m[K_i].e[s + 1] =
                       IF s \in AssignedIdx THEN log[MaxOf(CallsAt(s))][2] ELSE Null

\* i[3] then i[1]: length 4, slots 0 and 2 null
C7_Witness ==
    /\ Len(log) = 2
    /\ log[1] = <<P_i3, Num(1)>>
    /\ log[2] = <<P_i1, V_bc>>
    /\ tree.m[K_i] = Arr(<<Null, V_bc, Null, Num(1)>>)

---------------------------------------------------------------------------
(* SpecHeader: read_header's loop (reader.py lines 145-172) over the       *)
(* records its lines decode to, one record a line.                         *)

MaxLines == 3

K_o == <<"o">>
K_s == <<"s">>
K_t == <<"t">>
K_r == <<"r">>
K_d == <<"d">>

\* config, config.options, config.options.ssl, config.options.timeout and
\* config.debug of namespace v
H_c == <<"v", ":", "c">>
H_co == <<"v", ":", "c", ".", "o">>
H_cos == <<"v", ":", "c", ".", "o", ".", "s">>
H_cot == <<"v", ":", "c", ".", "o", ".", "t">>
H_cd == <<"v", ":", "c", ".", "d">>

HeaderKeys == {H_c, H_co, H_cos, H_cot, H_cd}

\* {"timeout": 1, "retries": 2}
V_tr == Obj(Dict2(K_t, Num(1), K_r, Num(2)))

HeaderValues == {Num(3), Null, V_tr}

MergeIdle ==
    /\ tree = Obj(EmptyDict)
    /\ prev = Obj(EmptyDict)
    /\ log = <<>>
    /\ lastOk = TRUE

\* lines 150-160: a line that decodes to {key: value}; header.update(field)
ScanLine(key, value) ==
    /\ hpc = "scan"
    /\ Len(lines) < MaxLines
    /\ lines' = Append(lines, [key |-> key, val |-> value])
    /\ header' = ODSet(header, key, value)
    /\ UNCHANGED <<result, hpc, emitted>>
    /\ UNCHANGED <<mergeVars, fileVars>>

\* lines 153-155 and 166-172: the empty line, then the extensions
EndOfHeader ==
    /\ hpc = "scan"
    /\ result' = ProcessExtensionFields(header)
    /\ hpc' = "done"
    /\ UNCHANGED <<lines, header, emitted>>
    /\ UNCHANGED <<mergeVars, fileVars>>

HeaderNext ==
    \/ \E key \in HeaderKeys, value \in HeaderValues : ScanLine(key, value)
    \/ EndOfHeader

InitHeader == MergeIdle /\ HeaderIdle /\ FileIdle

SpecHeader == InitHeader /\ [][HeaderNext]_vars

S_v == <<"v">>

\* the tree read_header returned for namespace v
TreeV == ODGet(result.hdr, S_jnrrd_ext_ \o S_v, Obj(EmptyDict))

\* the records applied one by one in file order
RECURSIVE InFileOrder(_, _, _)
InFileOrder(recs, j, acc) ==
    IF j > Len(recs) \/ ~acc.ok THEN acc
    ELSE InFileOrder(recs, j + 1, SetNestedValue(acc.t, PathOf(recs[j].key), recs[j].val))

(* C4: the extension tree is the result of applying the records in file   *)
(* order, so a leaf holds the value of the last record that addresses it,  *)
(* also when a key occurs twice with an ancestor or descendant between.    *)
C4_FileOrder ==
    hpc = "done" =>
        LET want == InFileOrder(lines, 1, [t |-> Obj(EmptyDict), ok |-> TRUE]) IN
        /\ result.ok = want.ok
        /\ (want.ok /\ lines # <<>>) => TreeV = want.t

\* the positions of the records with this key
LinesAt(key) == {j \in 1..Len(lines) : lines[j].key = key}

OtherPaths == {H_cot, H_cd}

---------------------------------------------------------------------------
(* SpecFlat: write() of a header that holds one extension tree, then       *)
(* read() of the file                                                      *)

MaxArrayLen == 2

SeqsUpTo(S, n) == UNION {[1..len -> S] : len \in 0..n}

FlatLeaves == {Num(1), Null, Obj(EmptyDict), Arr(<<>>)}

FlatItems == FlatLeaves \cup {Obj(Dict1(K_a, Num(1)))}

FlatArrays == {Arr(e) : e \in SeqsUpTo(FlatItems, MaxArrayLen)}

FlatMembers == FlatLeaves \cup FlatArrays \cup {Obj(Dict1(K_b, x)) : x \in FlatLeaves}

FlatTrees ==
    {Obj(EmptyDict)} \cup {Obj(Dict1(K_a, x)) : x \in FlatMembers}
        \cup {Obj(Dict2(K_a, x, K_c, y)) : x \in FlatMembers, y \in FlatLeaves}

F_file == <<"f">>

S_jnrrd_ext_v == S_jnrrd_ext_ \o <<"v">>

ExtHeader(t) == <<[key |-> S_jnrrd_ext_v, val |-> t]>>

U8 == DType(S_uint8, 1, "|")

D_pair == Array(U8, <<2>>, <<1, 2>>)

FlatNext ==
    \/ \E t \in FlatTrees : WriteCall(F_file, ExtHeader(t), D_pair, S_raw)
    \/ ReadCall

InitFlat == MergeIdle /\ HeaderIdle /\ FileIdle

SpecFlat == InitFlat /\ [][FlatNext]_vars

\* the tree handed to write() and the tree read() returned under the same key
TreeWritten == ODGet(wrote.hdr, S_jnrrd_ext_v, Null)

TreeRead == ODGet(got.hdr, S_jnrrd_ext_v, Null)

\* C3: after write() then read(), the header read holds under jnrrd_ext_v
\* a tree equal to the one written, for every tree of nested objects,
\* arrays of scalars and arrays that hold objects or arrays, the empty
\* object and the empty array included.
C3_FlattenRoundTrip ==
    phase = "read" => got.ok /\ ODHas(got.hdr, S_jnrrd_ext_v) /\ TreeRead = TreeWritten

---------------------------------------------------------------------------
(* SpecFile: write() or write_detached() of an array, the data cut short   *)
(* or not, then read()                                                     *)

MaxCut == 1

F_header == <<"h">>

F_data == <<"d">>

S_zip == <<"z", "i", "p">>

Encodings ==
    {S_raw, S_gzip, S_gz, S_bzip2, S_bz2, S_zstd, S_lz4, S_ascii, S_text, S_txt, S_hex}

H_none == <<>>

\* a header that declares one element more than D_pair holds
H_sizes == <<[key |-> S_sizes, val |-> Arr(<<Num(3)>>)]>>

H_skip == <<[key |-> S_byte_skip, val |-> Num(1)]>>

\* a header that declares one element where D_pair and D_wide hold two
H_short == <<[key |-> S_sizes, val |-> Arr(<<Num(1)>>)]>>

FileHeaders == {H_none, H_sizes, H_skip, H_short}

\* np.array(7, dtype=np.uint8), np.array([1, 258], dtype='<u2'),
\* np.array([[1, 2]], dtype=np.uint8)
D_scalar == Array(U8, <<>>, <<7>>)

D_wide == Array(DType(S_uint16, 2, "<"), <<2>>, <<1, 258>>)

D_grid == Array(U8, <<1, 2>>, <<1, 2>>)

FileArrays == {D_pair, D_scalar, D_wide, D_grid}

\* the bytes the encoder wrote for the data of the call
Payload == EncodeData(wrote.encoding, wrote.data).bytes

\* the data file loses its last byte
CutData ==
    /\ phase = "written"
    /\ wrote.cut < MaxCut
    /\ wrote.cut < Len(Payload)
    /\ fs' = [fs EXCEPT ![Loc(wrote.data_file)] = SubSeq(@, 1, Len(@) - 1)]
    /\ wrote' = [wrote EXCEPT !.cut = @ + 1]
    /\ UNCHANGED <<got, phase, mergeVars, headerVars>>

FileNext ==
    \/ \E h \in FileHeaders, d \in FileArrays, enc \in Encodings \cup {S_zip} :
          WriteCall(F_file, h, d, enc)
    \/ \E h \in FileHeaders, d \in FileArrays, enc \in Encodings \cup {S_zip} :
          WriteDetachedCall(F_header, F_data, h, d, enc)
    \/ CutData
    \/ ReadCall

InitFile == MergeIdle /\ HeaderIdle /\ FileIdle

SpecFile == InitFile /\ [][FileNext]_vars

\* C1: write(file, header, data, encoding) followed by read(file) returns
\* an array with the shape and the element values of data, for every
\* array, header and supported encoding.
C1_RoundTrip ==
    (phase = "read" /\ wrote.op = "write" /\ wrote.ok /\ wrote.cut = 0
        /\ wrote.hdr = H_none)
    => (got.ok /\ got.data.shape = wrote.data.shape /\ got.data.vals = wrote.data.vals)

\* the position read_header computes for the file read
DataStartPos == ReadHeader(fs[Loc(wrote.header_file)]).pos

\* C2: for a file with inline data, read() hands the decoder the position
\* just after the first empty line, __data_start_pos, plus byte_skip if
\* the header declares it, and never a position inside the header.
C2_InlineDataOffset ==
    (phase = "read" /\ wrote.op = "write" /\ got.stage \in {"decode", "done"})
    => got.pos = DataStartPos + ODGet(got.hdr, S_byte_skip, Num(0)).n

\* the fields of the header read that choose the decoder
EncodingRead == ODGet(got.hdr, S_encoding, Str(S_raw)).s

ItemSizeRead == GetNumpyDtype(ODGet(got.hdr, S_type, Null), ODGet(got.hdr, S_endian, Null)).dtype.size

\* the bytes the decoder has once it has decoded what the file holds from
\* pos on: [ok, n], ok = FALSE when that cannot be decoded at all
Available(file, pos, encoding, size) ==
    LET rest == ReadFrom(file, pos)
        codec == IF encoding \in {S_gzip, S_gz} THEN S_gzip
                 ELSE IF encoding \in {S_bzip2, S_bz2} THEN S_bzip2
                 ELSE encoding
        toks == Tokens(rest)
        bin == FromHex(SelectSeq(rest, IsAlnumByte))
    IN  IF encoding = S_raw THEN [ok |-> TRUE, n |-> Len(rest)]
        ELSE IF encoding \in {S_ascii, S_text, S_txt}
        THEN [ok |-> \A j \in 1..Len(toks) : \A x \in 1..Len(toks[j]) : IsDigitByte(toks[j][x]),
              n |-> Len(toks) * size]
        ELSE IF encoding = S_hex THEN [ok |-> ~InvalidUtf8(rest) /\ bin.ok, n |-> Len(bin.out)]
        ELSE [ok |-> Decompress(codec, rest).ok, n |-> Len(Decompress(codec, rest).out)]

AvailableRead == Available(fs[got.loc], got.pos, EncodingRead, ItemSizeRead)

\* C10: for every encoding, when the bytes the decoder has after decoding
\* are fewer than product(sizes) * element size, read() raises and returns
\* no array.
C10_ShortDataRaises ==
    (phase = "read" /\ got.stage \in {"decode", "done"}
        /\ AvailableRead.ok /\ AvailableRead.n < got.need)
    => (~got.ok /\ got.data = NoArray)

\* a gzip stream that decompresses to two bytes where the header declares
\* three elements, and the read that raised on it
C10_Witness ==
    /\ phase = "read"
    /\ got.stage = "decode"
    /\ EncodingRead = S_gzip
    /\ AvailableRead.ok
    /\ AvailableRead.n = 2
    /\ got.need = 3
    /\ ~got.ok

\* the payload the decoder of the header read has once the file is decoded
\* from pos on, before any check of its length: [ok, n, vals], n its length
\* in bytes and vals its elements (the whole elements, for a length that is
\* no multiple of the element size)
DecodedPayload(file, pos, encoding, dtype) ==
    LET rest == ReadFrom(file, pos)
        codec == IF encoding \in {S_gzip, S_gz} THEN S_gzip
                 ELSE IF encoding \in {S_bzip2, S_bz2} THEN S_bzip2
                 ELSE encoding
        toks == Tokens(rest)
        bin == FromHex(SelectSeq(rest, IsAlnumByte))
        whole(b) == FromBuffer(SubSeq(b, 1, (Len(b) \div dtype.size) * dtype.size), dtype).vals
        digits == \A j \in 1..Len(toks) : \A x \in 1..Len(toks[j]) : IsDigitByte(toks[j][x])
    IN  IF encoding = S_raw THEN [ok |-> TRUE, n |-> Len(rest), vals |-> whole(rest)]
        ELSE IF encoding \in {S_ascii, S_text, S_txt}
        THEN [ok |-> digits, n |-> Len(toks) * dtype.size,
              vals |-> IF digits THEN [j \in 1..Len(toks) |-> IntOfBytes(toks[j])] ELSE <<>>]
        ELSE IF encoding = S_hex
        THEN [ok |-> ~InvalidUtf8(rest) /\ bin.ok, n |-> Len(bin.out), vals |-> whole(bin.out)]
        ELSE [ok |-> Decompress(codec, rest).ok, n |-> Len(Decompress(codec, rest).out),
              vals |-> whole(Decompress(codec, rest).out)]

DTypeRead ==
    GetNumpyDtype(ODGet(got.hdr, S_type, Null), ODGet(got.hdr, S_endian, Null)).dtype

PayloadRead == DecodedPayload(fs[got.loc], got.pos, EncodingRead, DTypeRead)

SizesRead == SizesOf(ODGet(got.hdr, S_sizes, Null))

\* C11: for every encoding, a decoded payload longer than product(sizes)
\* elements is read without error as the array of its first product(sizes)
\* elements; what follows them is ignored.  Stated for a detached data
\* file, which the decoder reads from its first byte.
C11_TrailingIgnored ==
    (phase = "read" /\ wrote.op = "write_detached" /\ got.stage \in {"decode", "done"}
        /\ PayloadRead.ok /\ PayloadRead.n > got.need)
    => (got.ok /\ got.data.vals = SubSeq(PayloadRead.vals, 1, Product(SizesRead)))

\* C12: read() returns an array only when the decoded payload is exactly
\* product(sizes) * element width bytes long; a payload of any other length
\* makes it raise.  Stated for a detached data file, which the decoder reads
\* from its first byte.
C12_ExactLength ==
    (phase = "read" /\ wrote.op = "write_detached" /\ got.stage \in {"decode", "done"}
        /\ PayloadRead.ok)
    => (got.ok <=> PayloadRead.n = got.need)

---------------------------------------------------------------------------
(* SpecDetached: write_detached() with the header file and the data file   *)
(* at paths of every kind, then read() of the header file                  *)

HeaderPaths == {<<"h">>, <<"o", "/", "h">>, <<"/", "r", "/", "h">>}

DataPaths ==
    {<<"d">>, <<"o", "/", "d">>, <<"u", "/", "d">>, <<"/", "r", "/", "d">>,
     <<"/", "t", "/", "d">>}

DetachedNext ==
    \/ \E hp \in HeaderPaths, dp \in DataPaths, enc \in Encodings :
          WriteDetachedCall(hp, dp, H_none, D_pair, enc)
    \/ ReadCall

InitDetached == MergeIdle /\ HeaderIdle /\ FileIdle

SpecDetached == InitDetached /\ [][DetachedNext]_vars

\* the data_file field of the header file that was written
DataFileField == ODGet(ReadHeader(fs[Loc(wrote.header_file)]).hdr, S_data_file, Null)

\* C9: after write_detached(header_file, data_file, ...) the header names
\* the data file by its bare name when the two files share a directory and
\* by the full path otherwise, and read(header_file) resolves that name to
\* exactly the data file that was written, for every pair of paths.
C9_DetachedResolves ==
    (phase = "read" /\ wrote.op = "write_detached")
    => /\ DataFileField = Str(IF Dirname(wrote.header_file) = Dirname(wrote.data_file)
                              THEN Basename(wrote.data_file) ELSE wrote.data_file)
       /\ got.loc = Loc(wrote.data_file)
       /\ got.ok

---------------------------------------------------------------------------
(* SpecScan: a file made by hand, line by line, then read_header() of it   *)

MaxFileLines == 3

\* {"a": 1}, {"b": 2}, 5, null, [], {}, {"a": 1, "c": 2}, hi, two bytes
\* that are no text, and the empty line
L_a == RecordLine(K_a, Num(1))
L_b == RecordLine(K_b, Num(2))
L_number == Encode(<<"5", "\n">>)
L_null == Encode(<<"n", "u", "l", "l", "\n">>)
L_array == Encode(<<"[", "]", "\n">>)
L_object == Encode(<<"{", "}", "\n">>)
L_two == Encode(JsonDumps(Obj(Dict2(K_a, Num(1), K_c, Num(2)))) \o <<"\n">>)
L_text == Encode(<<"h", "i", "\n">>)
L_bytes == <<1, 2, 10>>
L_empty == <<10>>

FileLines ==
    {L_a, L_b, L_number, L_null, L_array, L_object, L_two, L_text, L_bytes, L_empty}

\* one more line is appended to the file
AuthorLine(line) ==
    /\ phase \in {"new", "written"}
    /\ Len(wrote.lines) < MaxFileLines
    /\ fs' = FsPut(fs, F_file, (IF FsHas(fs, F_file) THEN fs[Loc(F_file)] ELSE <<>>) \o line)
    /\ wrote' = [Call("author", F_file, F_file, <<>>, NoArray, <<>>, TRUE)
                    EXCEPT !.lines = Append(wrote.lines, line)]
    /\ phase' = "written"
    /\ UNCHANGED <<got, mergeVars, headerVars>>

\* read_header(F_file)
\* what read_header returned, as a result of a read
HeaderResult(h) ==
    ReadResult(h.ok, IF h.ok THEN "done" ELSE "header", h.hdr, NoArray, Loc(F_file), h.pos, 0)

ReadHeaderCall ==
    /\ phase = "written"
    /\ got' = HeaderResult(ReadHeader(fs[Loc(F_file)]))
    /\ phase' = "read"
    /\ UNCHANGED <<fs, wrote, mergeVars, headerVars>>

ScanNext ==
    \/ \E line \in FileLines : AuthorLine(line)
    \/ ReadHeaderCall

InitScan == MergeIdle /\ HeaderIdle /\ FileIdle

SpecScan == InitScan /\ [][ScanNext]_vars

\* a line that decodes as a JSON object with exactly one key
IsRecord(line) ==
    LET r == JsonLoads(Decode(Strip(line))) IN
    ~InvalidUtf8(line) /\ r.ok /\ r.v.k = "obj" /\ Cardinality(DOMAIN r.v.m) = 1

\* the number of the first line of the file that is no record, 0 if none
FirstOther ==
    LET others == {j \in 1..Len(wrote.lines) : ~IsRecord(wrote.lines[j])} IN
    IF others = {} THEN 0 ELSE Least(others)

\* the position at which line j starts
RECURSIVE LineStart(_)
LineStart(j) == IF j = 1 THEN 0 ELSE LineStart(j - 1) + Len(wrote.lines[j - 1])

\* the fields of the records before line j
RECURSIVE RecordsBefore(_)
RecordsBefore(j) ==
    IF j = 1 THEN <<>>
    ELSE LET r == JsonLoads(Decode(Strip(wrote.lines[j - 1]))) IN
         UpdateMembers(RecordsBefore(j - 1), r.v.m, r.keys, 1)

\* C8: the first line that is not empty and does not decode as a
\* single-key JSON object ends the header without raising; the records
\* before it are kept and the data offset is the start of that line.
C8_OtherLineEndsHeader ==
    (phase = "read" /\ FirstOther # 0 /\ wrote.lines[FirstOther] # L_empty)
    => /\ got.ok
       /\ got.pos = LineStart(FirstOther)
       /\ ODDel(got.hdr, S_data_start_pos) = RecordsBefore(FirstOther)

---------------------------------------------------------------------------
(* SpecTypes: write() or write_detached() of an array of every element     *)
(* type and byte order under a binary encoding, then read()                *)

\* the element types of the type table of the format
ElementTypes ==
    {S_int8, S_uint8, S_int16, S_uint16, S_int32, S_uint32, S_int64, S_uint64, S_float16,
     S_float32, S_float64, S_complex64, S_complex128}

\* np.array([1, 2], dtype): one array of each numpy type in native order,
\* np.bool_ among them, and arrays in big-endian order
TypeArrays ==
    {Array(NativeDType(name), <<2>>, <<1, 2>>) : name \in ElementTypes \cup {S_bool}}
        \cup {Array(DType(name, ItemSize(name), ">"), <<2>>, <<1, 2>>) :
                name \in {S_uint16, S_float16, S_uint32}}

\* the arrays of at most two bytes an element
NarrowArrays == {d \in TypeArrays : d.dtype.size <= 2}

BinaryEncodings == {S_raw, S_gzip, S_bzip2, S_zstd, S_lz4, S_hex}

H_bfloat16 == <<[key |-> S_type, val |-> Str(S_bfloat16)]>>

H_bool == <<[key |-> S_type, val |-> Str(S_bool)]>>

H_type5 == <<[key |-> S_type, val |-> Num(5)]>>

H_zip == <<[key |-> S_encoding, val |-> Str(S_zip)]>>

TypeHeaders == {H_none, H_bfloat16, H_bool, H_type5, H_zip}

TypesNext ==
    \/ \E h \in TypeHeaders, d \in NarrowArrays, enc \in BinaryEncodings \cup {S_zip} :
          WriteCall(F_file, h, d, enc)
    \/ \E h \in TypeHeaders, d \in TypeArrays, enc \in BinaryEncodings \cup {S_zip} :
          WriteDetachedCall(F_header, F_data, h, d, enc)
    \/ ReadCall

InitTypes == MergeIdle /\ HeaderIdle /\ FileIdle

SpecTypes == InitTypes /\ [][TypesNext]_vars

TypeRead == ODGet(got.hdr, S_type, Null)

\* C13: read() raises and returns nothing whenever the type of the header
\* is not one of the element types of the type table or its encoding is
\* not one of the listed identifiers, and write() and write_detached()
\* raise for an encoding outside the list.
C13_UnknownRejected ==
    /\ (phase = "read" /\ ODHas(got.hdr, S_type)
          /\ (TypeRead.k # "str" \/ TypeRead.s \notin ElementTypes
                \/ ~IsEncoding(ODGet(got.hdr, S_encoding, Str(S_raw)))))
       => (~got.ok /\ got.data = NoArray)
    /\ (phase # "new" /\ wrote.encoding \notin Encodings) => ~wrote.ok

\* C17: for every byte order of the array written and every binary
\* encoding, read() of the files write_detached() made returns the element
\* values of the array.
C17_ByteOrder ==
    (phase = "read" /\ wrote.op = "write_detached" /\ wrote.ok /\ wrote.hdr = H_none)
    => (got.ok /\ got.data.vals = wrote.data.vals)

\* the numpy type the reader maps the type name of the header read to
TypeBack == GetNumpyDtype(TypeRead, Null)

\* C18: when write() or write_detached() records the type name of the
\* array itself, the reader maps the name read back to the numpy type of
\* the array (same name, same width), the array returned by read() has that
\* element type, and a detached file written with no header field of the
\* caller's is read without error.
C18_TypeRoundTrip ==
    (phase = "read" /\ wrote.ok /\ ~ODHas(wrote.hdr, S_type))
    => /\ TypeBack.ok
       /\ TypeBack.dtype.name = wrote.data.dtype.name
       /\ TypeBack.dtype.size = wrote.data.dtype.size
       /\ got.ok => /\ got.data.dtype.name = wrote.data.dtype.name
                    /\ got.data.dtype.size = wrote.data.dtype.size
       /\ (wrote.op = "write_detached" /\ wrote.hdr = H_none) => got.ok

\* an array of complex128 written to a detached file and read back
C18_Witness ==
    /\ phase = "read"
    /\ wrote.op = "write_detached"
    /\ wrote.hdr = H_none
    /\ wrote.data.dtype.name = S_complex128
    /\ got.ok
    /\ got.data.dtype.name = S_complex128
    /\ got.data.dtype.size = 16

---------------------------------------------------------------------------
(* SpecFields: a file made by hand from the records of the required        *)
(* fields, then read() or read_header() of it                              *)

\* {"type": "uint8"}, {"dimension": 1}, {"sizes": [1]}, {"data_file": "d"}
\* (a file that does not exist) and a byte of data
L_type == RecordLine(S_type, Str(S_uint8))
L_dimension == RecordLine(S_dimension, Num(1))
L_sizes == RecordLine(S_sizes, Arr(<<Num(1)>>))
L_detached == RecordLine(S_data_file, Str(F_data))
L_data == <<7>>

FieldLines == {L_type, L_dimension, L_sizes, L_detached, L_a, L_empty, L_data}

FieldsNext ==
    \/ \E line \in FieldLines : AuthorLine(line)
    \/ ReadCall
    \/ ReadHeaderCall

InitFields == MergeIdle /\ HeaderIdle /\ FileIdle

SpecFields == InitFields /\ [][FieldsNext]_vars

\* the fields of the records of the header of the file
FieldsPresent == RecordsBefore(IF FirstOther = 0 THEN Len(wrote.lines) + 1 ELSE FirstOther)

\* the call that made got: read() drops __data_start_pos, read_header()
\* returns it
ByReadHeader == ODHas(got.hdr, S_data_start_pos)

\* C14: when type, dimension or sizes is absent from the header of the
\* file, read() raises on the check of the fields, with no data file
\* opened and no array, and read_header() returns the fields that are
\* present.
C14_MissingFieldRaises ==
    (phase = "read" /\ wrote.op = "author"
        /\ (~ODHas(FieldsPresent, S_type) \/ ~ODHas(FieldsPresent, S_dimension)
              \/ ~ODHas(FieldsPresent, S_sizes)))
    => IF ByReadHeader
       THEN got.ok /\ ODDel(got.hdr, S_data_start_pos) = FieldsPresent
       ELSE ~got.ok /\ got.stage = "fields" /\ got.loc = <<>> /\ got.data = NoArray

\* {"type": "uint8"}, {"sizes": [1]} and a byte of data: read() raised for
\* the absent dimension
C14_Witness ==
    /\ phase = "read"
    /\ wrote.lines = <<L_type, L_sizes, L_data>>
    /\ ~ByReadHeader
    /\ ~got.ok
    /\ got.stage = "fields"

---------------------------------------------------------------------------
(* SpecRecords: the records of a header unflattened by read_header's      *)
(* _process_extension_fields, and the header it returns flattened by the   *)
(* writer's _flatten_extensions                                            *)

MaxRecords == 2

\* a, a.b, c, i[0], i[0].b and i[1].b of namespace v, and the fields
\* n, extensions and jnrrd_ext_v
R_a == <<"v", ":", "a">>
R_ab == <<"v", ":", "a", ".", "b">>
R_c == <<"v", ":", "c">>
R_i0 == <<"v", ":", "i", "[", "0", "]">>
R_i0b == <<"v", ":", "i", "[", "0", "]", ".", "b">>
R_i1b == <<"v", ":", "i", "[", "1", "]", ".", "b">>
R_n == <<"n">>

RecordKeys == {R_a, R_ab, R_c, R_i0, R_i0b, R_i1b, R_n, S_extensions, S_jnrrd_ext_v}

\* 1, [], [1] and {"b": 1}
RecordValues == {Num(1), Arr(<<>>), Arr(<<Num(1)>>), Obj(Dict1(K_b, Num(1)))}

\* one more record of the header
ScanRecord(key, value) == Len(lines) < MaxRecords /\ ScanLine(key, value)

\* _flatten_extensions(header) on the header read_header returned
FlattenCall ==
    /\ hpc = "done"
    /\ result.ok
    /\ emitted' = FlattenExtensions(result.hdr)
    /\ hpc' = "flat"
    /\ UNCHANGED <<lines, header, result>>
    /\ UNCHANGED <<mergeVars, fileVars>>

RecordsNext ==
    \/ \E key \in RecordKeys, value \in RecordValues : ScanRecord(key, value)
    \/ EndOfHeader
    \/ FlattenCall

InitRecords == MergeIdle /\ HeaderIdle /\ FileIdle

SpecRecords == InitRecords /\ [][RecordsNext]_vars

\* the records of a sequence, as a set
RecordSet(recs) == {recs[j] : j \in 1..Len(recs)}

RECURSIVE PathText(_, _)
PathText(comps, j) ==
    IF j > Len(comps) THEN <<>>
    ELSE (IF comps[j].t = "i" THEN <<"[">> \o DecimalChars(comps[j].idx) \o <<"]">>
          ELSE (IF j > 1 THEN <<".">> ELSE <<>>) \o comps[j].name)
             \o PathText(comps, j + 1)

SegmentsOf(key) == ParseComponents(PathOf(key))

IsPrefix(x, y) == Len(x) <= Len(y) /\ SubSeq(y, 1, Len(x)) = x

\* the records are in the form the flattener writes: every key once, no
\* field named jnrrd_ext_..., and for a namespaced key a well-formed path
\* that ends in a field, no path a prefix of another, every array index
\* preceded by the indices below it, and a scalar or an array of scalars
\* for its value
Canonical(recs) ==
    LET ext == {j \in 1..Len(recs) : IsExtKey(recs[j].key)} IN
    /\ \A j, x \in 1..Len(recs) : j # x => recs[j].key # recs[x].key
    /\ \A j \in 1..Len(recs) : ~IsExtensionField(recs[j].key)
    /\ \A j \in ext :
         LET segs == SegmentsOf(recs[j].key) IN
         /\ segs # <<>>
         /\ PathText(segs, 1) = PathOf(recs[j].key)
         /\ segs[Len(segs)].t # "i"
         /\ recs[j].val.k # "obj"
         /\ recs[j].val.k = "arr" => \A x \in 1..Len(recs[j].val.e) : IsSimple(recs[j].val.e[x])
         /\ \A x \in ext \ {j} : ~IsPrefix(segs, SegmentsOf(recs[x].key))
         /\ \A q \in 1..Len(segs) :
              (segs[q].t = "i" /\ segs[q].idx > 0)
              => \E x \in ext :
                   LET other == SegmentsOf(recs[x].key) IN
                   /\ Len(other) >= q
                   /\ SubSeq(other, 1, q - 1) = SubSeq(segs, 1, q - 1)
                   /\ other[q] = Index(segs[q].idx - 1)

\* the record read_header adds when a key is namespaced and the header
\* declares no extensions
Declared(recs) ==
    IF (\E j \in 1..Len(recs) : IsExtKey(recs[j].key)) /\ ~ODHas(recs, S_extensions)
    THEN {[key |-> S_extensions, val |-> Obj(EmptyDict)]}
    ELSE {}

---------------------------------------------------------------------------
(* SpecPaths: _set_nested_value called with paths that are well formed and *)
(* paths that are not                                                      *)

\* the empty path, items[, items[x] and [0].x (items written i)
P_empty == <<>>
P_open == <<"i", "[">>
P_ix == <<"i", "[", "x", "]">>
P_lead == <<"[", "0", "]", ".", "x">>

BadPaths == {P_empty, P_open, P_ix, P_lead}

PathsNext == \E path \in BadPaths \cup {P_a, P_i1}, value \in {Num(1), V_bc} : MergeCall(path, value)

InitPaths == MergeInit /\ HeaderIdle /\ FileIdle

SpecPaths == InitPaths /\ [][PathsNext]_vars

\* C16: a call with the empty path, with a bracket that is not closed
\* around digits or with a path that starts with a bracket raises and
\* leaves the tree as it was.
C16_PathSyntaxError ==
    (log # <<>> /\ LastPath \in BadPaths) => (~lastOk /\ tree = prev)

---------------------------------------------------------------------------
(* SpecIndex: _set_nested_value called with paths whose index segments     *)
(* stand before the last segment (items and matrix are both written i)     *)

\* the key name followed by one bracket group for each index
BracketPath(name, idxs) ==
    name \o ConcatAll([j \in 1..Len(idxs) |-> <<"[">> \o DecimalChars(idxs[j]) \o <<"]">>])

\* i[1], i[1][2] and i[0][1][1]
BracketCases == {<<1>>, <<1, 2>>, <<0, 1, 1>>}

BracketPaths == {BracketPath(K_i, c) : c \in BracketCases}

\* i[1].b and i[2].b
P_i1b == <<"i", "[", "1", "]", ".", "b">>
P_i2b == <<"i", "[", "2", "]", ".", "b">>

IndexedPaths == BracketPaths \cup {P_i, P_i1b, P_i2b}

IndexedValues == {Num(1), Null, Arr(<<Num(1)>>)}

IndexNext == \E path \in IndexedPaths, value \in IndexedValues : MergeCall(path, value)

InitIndex == MergeInit /\ HeaderIdle /\ FileIdle

SpecIndex == InitIndex /\ [][IndexNext]_vars

\* the paths name, index, last segment
MiddleIndexPaths == {P_i1b, P_i2b, BracketPath(K_i, <<1, 2>>)}

\* items before the last call, the empty array when it was absent
ItemsBefore == IF K_i \in DOMAIN prev.m THEN prev.m[K_i] ELSE Arr(<<>>)

\* C19: when the index segment of i[k].b or i[k][2] addresses a slot
\* beyond the length of i (i absent included) or a slot that holds null,
\* the call returns, i has the length that holds slot k, every other slot
\* keeps its value or is null if new, and slot k is {b: value}, or the
\* array [null, null, value].
C19_SlotMaterialized ==
    (/\ log # <<>>
     /\ LastPath \in MiddleIndexPaths
     /\ ItemsBefore.k = "arr"
     /\ \/ Len(ItemsBefore.e) <= IdxOf(LastPath)
        \/ ItemsBefore.e[IdxOf(LastPath) + 1] = Null)
    => LET k == IdxOf(LastPath)
           last == ParseComponents(LastPath)[3]
           old == ItemsBefore.e
       IN  /\ lastOk
           /\ K_i \in DOMAIN tree.m
           /\ tree.m[K_i].k = "arr"
           /\ Len(tree.m[K_i].e) = IF Len(old) > k THEN Len(old) ELSE k + 1
           /\ \A j \in 1..Len(tree.m[K_i].e) :
                 j # k + 1 => tree.m[K_i].e[j] = IF j <= Len(old) THEN old[j] ELSE Null
           /\ tree.m[K_i].e[k + 1] =
                 IF last.t = "f" THEN Obj(Dict1(last.name, LastValue))
                 ELSE Arr([j \in 1..(last.idx + 1) |->
                             IF j = last.idx + 1 THEN LastValue ELSE Null])

\* i[2].b = 1 on an empty tree: i == [null, null, {b: 1}]
C19_Witness ==
    /\ log = <<<<P_i2b, Num(1)>>>>
    /\ lastOk
    /\ tree = Obj(Dict1(K_i, Arr(<<Null, Null, Obj(Dict1(K_b, Num(1)))>>)))

\* the indices of a path of BracketPaths
CaseOf(path) == CHOOSE c \in BracketCases : BracketPath(K_i, c) = path

\* the array of arrays that holds v at the indices c[j..] and null elsewhere
RECURSIVE Nested(_, _, _)
Nested(c, j, v) ==
    IF j > Len(c) THEN v
    ELSE Arr([x \in 1..(c[j] + 1) |-> IF x = c[j] + 1 THEN Nested(c, j + 1, v) ELSE Null])

\* every node on the way c[j..] from node is an array, null or absent
RECURSIVE ArrayWay(_, _, _)
ArrayWay(node, c, j) ==
    /\ node.k = "arr"
    /\ \/ j = Len(c)
       \/ c[j] >= Len(node.e)
       \/ node.e[c[j] + 1] = Null
       \/ ArrayWay(node.e[c[j] + 1], c, j + 1)

\* C20: a name followed by k bracket groups parses to the field and the k
\* indices in their order, for k = 1, 2, 3; assigned on a tree without the
\* name it builds the arrays of arrays that hold the value at those
\* indices, and on arrays that are there it puts the value at them.
C20_BracketChain ==
    (log # <<>> /\ LastPath \in BracketPaths)
    => LET c == CaseOf(LastPath)
           segs == <<Field(K_i)>> \o [j \in 1..Len(c) |-> Index(c[j])]
       IN  /\ ParseComponents(LastPath) = segs
           /\ K_i \notin DOMAIN prev.m => lastOk /\ tree.m[K_i] = Nested(c, 1, LastValue)
           /\ (K_i \in DOMAIN prev.m /\ ArrayWay(prev.m[K_i], c, 1))
                 => lastOk /\ Lookup(tree, segs, 1) = [found |-> TRUE, v |-> LastValue]

\* i[1][2] = 1 on an empty tree: i == [null, [null, null, 1]]
C20_Witness ==
    /\ log = <<<<BracketPath(K_i, <<1, 2>>), Num(1)>>>>
    /\ lastOk
    /\ tree = Obj(Dict1(K_i, Arr(<<Null, Arr(<<Null, Null, Num(1)>>)>>)))

---------------------------------------------------------------------------
(* SpecKeys: read_header's merge of records whose keys hold several        *)
(* colons, or dots and brackets without a colon                            *)

\* v:a:b, v:a.b, w:c:d.e and :a, and a.b, i[0] and n without a colon
Q_vacb == <<"v", ":", "a", ":", "b">>
Q_vab == <<"v", ":", "a", ".", "b">>
Q_wcde == <<"w", ":", "c", ":", "d", ".", "e">>
Q_a == <<":", "a">>
Q_ab == <<"a", ".", "b">>
Q_i0 == <<"i", "[", "0", "]">>

NamespacedKeys == {Q_vacb, Q_vab, Q_wcde, Q_a}

PlainKeys == {Q_ab, Q_i0, R_n}

KeyValues == {Num(1), Num(2)}

KeysNext ==
    \/ \E key \in NamespacedKeys \cup PlainKeys, value \in KeyValues : ScanLine(key, value)
    \/ EndOfHeader

InitKeys == MergeIdle /\ HeaderIdle /\ FileIdle

SpecKeys == InitKeys /\ [][KeysNext]_vars

\* the namespace and the segments each key of NamespacedKeys stands for
Routed(key) ==
    CASE key = Q_vacb -> [ns |-> <<"v">>, segs |-> <<Field(<<"a", ":", "b">>)>>]
      [] key = Q_vab -> [ns |-> <<"v">>, segs |-> <<Field(K_a), Field(K_b)>>]
      [] key = Q_wcde -> [ns |-> <<"w">>, segs |-> <<Field(<<"c", ":", "d">>), Field(<<"e">>)>>]
      [] key = Q_a -> [ns |-> <<>>, segs |-> <<Field(K_a)>>]

\* the keys of a dict
ODKeys(od) == {od[j].key : j \in 1..Len(od)}

\* C21: of the header read_header returns, a key with a colon has its
\* value in the tree of the namespace before its first colon, at the path
\* after it, further colons being part of a field name; a key without a
\* colon is a field of the header under its own name, dots and brackets
\* included, with its value; and the header has no other field than these,
\* the trees of the namespaces and extensions.  (No key here is the name
\* jnrrd_ext_<namespace> that the tree of a namespace is returned under.)
C21_FirstColonSplit ==
    hpc = "done"
    => /\ result.ok
       /\ \A j \in 1..Len(header) :
             IF header[j].key \in PlainKeys
             THEN /\ ODHas(result.hdr, header[j].key)
                  /\ ODGet(result.hdr, header[j].key, Null) = header[j].val
             ELSE /\ ODHas(result.hdr, S_jnrrd_ext_ \o Routed(header[j].key).ns)
                  /\ Lookup(ODGet(result.hdr, S_jnrrd_ext_ \o Routed(header[j].key).ns, Null),
                            Routed(header[j].key).segs, 1)
                        = [found |-> TRUE, v |-> header[j].val]
       /\ ODKeys(result.hdr) =
             (ODKeys(header) \cap PlainKeys)
                \cup {S_jnrrd_ext_ \o Routed(key).ns : key \in ODKeys(header) \cap NamespacedKeys}
                \cup (IF ODKeys(header) \cap NamespacedKeys = {} THEN {} ELSE {S_extensions})

\* v:a:b = 1 and a.b = 2: namespace v holds the field "a:b", the header the
\* field "a.b"
C21_Witness ==
    /\ hpc = "done"
    /\ lines = <<[key |-> Q_vacb, val |-> Num(1)], [key |-> Q_ab, val |-> Num(2)]>>
    /\ result.ok
    /\ ODMap(result.hdr) = ODMap(<<[key |-> Q_ab, val |-> Num(2)],
                                   [key |-> S_extensions, val |-> Obj(EmptyDict)],
                                   [key |-> S_jnrrd_ext_ \o S_v,
                                    val |-> Obj(Dict1(<<"a", ":", "b">>, Num(1)))]>>)

---------------------------------------------------------------------------
(* SpecArrays: _flatten_extensions called on the tree of namespace v       *)

\* [[1, 2], 3], [[{b: 1}], null] and {b: [1, [2]]} under i
NestedTrees ==
    {Obj(Dict1(K_i, Arr(<<Arr(<<Num(1), Num(2)>>), Num(3)>>))),
     Obj(Dict1(K_i, Arr(<<Arr(<<Obj(Dict1(K_b, Num(1)))>>), Null>>))),
     Obj(Dict1(K_i, Obj(Dict1(K_b, Arr(<<Num(1), Arr(<<Num(2)>>)>>)))))}

ArrayTrees == FlatTrees \cup NestedTrees

\* _flatten_extensions(header) on a header given by the caller
FlattenHeaderCall(hdr) ==
    /\ hpc = "scan"
    /\ header = <<>>
    /\ header' = hdr
    /\ emitted' = FlattenExtensions(hdr)
    /\ hpc' = "flat"
    /\ UNCHANGED <<lines, result>>
    /\ UNCHANGED <<mergeVars, fileVars>>

ArraysNext == \E t \in ArrayTrees : FlattenHeaderCall(ExtHeader(t))

InitArrays == MergeIdle /\ HeaderIdle /\ FileIdle

SpecArrays == InitArrays /\ [][ArraysNext]_vars

\* the tree that was flattened
TreeFlattened == ODGet(header, S_jnrrd_ext_v, Null)

\* the nodes of the tree that stand for one record each, with the segments
\* that lead to them: the scalars outside arrays of scalars, and the arrays
\* none of whose elements is an object or an array
RECURSIVE Units(_, _)
Units(node, comps) ==
    IF node.k = "obj"
    THEN UNION {Units(node.m[key], Append(comps, Field(key))) : key \in DOMAIN node.m}
    ELSE IF node.k = "arr" /\ \E j \in 1..Len(node.e) : node.e[j].k \in {"obj", "arr"}
    THEN UNION {Units(node.e[j], Append(comps, Index(j - 1))) : j \in 1..Len(node.e)}
    ELSE {[comps |-> comps, val |-> node]}

\* the first position at which two sequences differ, 0 if there is none
\* within the shorter one
FirstDifference(x, y) ==
    LET D == {j \in 1..Len(x) : j <= Len(y) /\ x[j] # y[j]}
    IN  IF D = {} THEN 0 ELSE Least(D)

\* C22: the records flattened from a tree are, once each, the arrays
\* without an object or array among their elements (the empty array
\* included), whole, and the scalars outside such arrays; an array with an
\* object or array among its elements has no record of its own and its
\* elements are flattened under the suffixes [0], [1], ... in that order.
C22_ArrayRecords ==
    hpc = "flat"
    => /\ RecordSet(emitted) =
             {[key |-> S_v \o <<":">> \o PathText(u.comps, 1), val |-> u.val] :
                 u \in Units(TreeFlattened, <<>>)}
       /\ Len(emitted) = Cardinality(Units(TreeFlattened, <<>>))
       /\ \A x, y \in 1..Len(emitted) :
             LET sx == SegmentsOf(emitted[x].key)
                 sy == SegmentsOf(emitted[y].key)
                 d == FirstDifference(sx, sy)
             IN  (x < y /\ d > 0 /\ sx[d].t = "i" /\ sy[d].t = "i") => sx[d].idx < sy[d].idx

\* {i: [[1, 2], 3]} is flattened to v:i[0] = [1, 2] and v:i[1] = 3
C22_Witness ==
    /\ hpc = "flat"
    /\ TreeFlattened = Obj(Dict1(K_i, Arr(<<Arr(<<Num(1), Num(2)>>), Num(3)>>)))
    /\ emitted = <<[key |-> R_i0, val |-> Arr(<<Num(1), Num(2)>>)],
                   [key |-> <<"v", ":", "i", "[", "1", "]">>, val |-> Num(3)]>>

---------------------------------------------------------------------------
(* SpecLayout: write() or write_detached() of headers with extension       *)
(* trees, then read_header() of the header file                            *)

S_0005 == <<"0", "0", "0", "5">>

\* a header whose jnrrd field comes after another field
H_magic == <<[key |-> R_n, val |-> Num(1)], [key |-> S_jnrrd, val |-> Str(S_0005)]>>

\* the trees with one member, with arrays in arrays, and one with two members
LayoutTrees ==
    {Obj(Dict1(K_a, x)) : x \in FlatMembers} \cup NestedTrees
        \cup {Obj(Dict2(K_a, Num(1), K_c, Null))}

LayoutHeaders == {ExtHeader(t) : t \in LayoutTrees} \cup FileHeaders \cup {H_magic}

LayoutEncodings == {S_raw, S_ascii}

LayoutNext ==
    \/ \E h \in LayoutHeaders, enc \in LayoutEncodings : WriteCall(F_file, h, D_pair, enc)
    \/ \E h \in LayoutHeaders, enc \in LayoutEncodings :
          WriteDetachedCall(F_file, F_data, h, D_pair, enc)
    \/ ReadHeaderCall

InitLayout == MergeIdle /\ HeaderIdle /\ FileIdle

SpecLayout == InitLayout /\ [][LayoutNext]_vars

\* the bytes of the header file and the number of them before the data
HeaderFile == fs[Loc(wrote.header_file)]

HeaderLength == Len(HeaderFile) - (IF wrote.op = "write" THEN Len(Payload) ELSE 0)

\* the keys write has to put in the file: the fields it fills in, the
\* caller's fields and the record units of the tree of namespace v
KeysToWrite ==
    {S_jnrrd, S_dimension, S_sizes, S_type, S_encoding, S_endian}
        \cup (IF wrote.op = "write_detached" THEN {S_data_file} ELSE {})
        \cup {key \in ODKeys(wrote.hdr) : ~IsExtensionField(key)}
        \cup {S_v \o <<":">> \o PathText(u.comps, 1) :
                 u \in Units(ODGet(wrote.hdr, S_jnrrd_ext_v, Obj(EmptyDict)), <<>>)}

\* C23: the header file write or write_detached made holds, before the
\* data, lines that each end in a newline: first the record of jnrrd, then
\* one record for every other flattened key, each key once, then one empty
\* line, which is the only empty one; read_header of the file returns the
\* number of these bytes as the offset of the data.
C23_HeaderLayout ==
    (phase \in {"written", "read"} /\ wrote.op \in {"write", "write_detached"} /\ wrote.ok)
    => LET nls == Ascending({j \in 1..HeaderLength : HeaderFile[j] = 10})
           n == Len(nls)
           line(x) == SubSeq(HeaderFile, (IF x = 1 THEN 1 ELSE nls[x - 1] + 1), nls[x] - 1)
           rec(x) == JsonLoads(Decode(line(x)))
       IN  /\ n >= 2
           /\ nls[n] = HeaderLength
           /\ line(n) = <<>>
           /\ \A x \in 1..(n - 1) :
                 /\ line(x) # <<>>
                 /\ rec(x).ok
                 /\ rec(x).v.k = "obj"
                 /\ Len(rec(x).keys) = 1
           /\ rec(1).keys[1] = S_jnrrd
           /\ \A x, y \in 1..(n - 1) : x # y => rec(x).keys[1] # rec(y).keys[1]
           /\ {rec(x).keys[1] : x \in 1..(n - 1)} = KeysToWrite
           /\ phase = "read" => (got.ok /\ got.pos = HeaderLength)

\* write('f', {'n': 1, 'jnrrd': '0005'}, [1, 2]) then read_header('f'): the
\* offset is the length of the file without its two bytes of data
C23_Witness ==
    /\ phase = "read"
    /\ wrote.op = "write"
    /\ wrote.hdr = H_magic
    /\ wrote.encoding = S_raw
    /\ got.ok
    /\ got.pos = Len(HeaderFile) - 2
    /\ SubSeq(HeaderFile, 1, 18) = RecordLine(S_jnrrd, Str(S_0005))

---------------------------------------------------------------------------
(* SpecSkip: write_detached() with line_skip and byte_skip in the header,  *)
(* then read() of the header file                                          *)

\* sizes = [1] with the line_skip and byte_skip fields, Null standing for a
\* field that is absent
H_skips(line_skip, byte_skip) ==
    <<[key |-> S_sizes, val |-> Arr(<<Num(1)>>)]>>
        \o (IF line_skip = Null THEN <<>> ELSE <<[key |-> S_line_skip, val |-> line_skip]>>)
        \o (IF byte_skip = Null THEN <<>> ELSE <<[key |-> S_byte_skip, val |-> byte_skip]>>)

SkipHeaders ==
    {H_skips(l, b) : l \in {Num(0), Num(1), Num(2), Null}, b \in {Num(0), Num(1), Null}}

\* arrays of bytes with one and with two newlines among them
D_line == Array(U8, <<4>>, <<1, 10, 7, 2>>)

D_lines == Array(U8, <<4>>, <<10, 7, 10, 2>>)

SkipArrays == {D_pair, D_line, D_lines}

SkipNext ==
    \/ \E h \in SkipHeaders, d \in SkipArrays, enc \in {S_raw, S_hex, S_gzip} :
          WriteDetachedCall(F_header, F_data, h, d, enc)
    \/ ReadCall

InitSkip == MergeIdle /\ HeaderIdle /\ FileIdle

SpecSkip == InitSkip /\ [][SkipNext]_vars

\* the bytes of the data file
DataFile == fs[Loc(wrote.data_file)]

\* the number of bytes of the first n lines of the file (all of it when it
\* has fewer lines)
LinesLength(file, n) ==
    LET nls == {j \in 1..Len(file) : file[j] = 10}
        nth == {j \in nls : Cardinality({x \in nls : x <= j}) = n}
    IN  IF n = 0 THEN 0
        ELSE IF nth = {} THEN Len(file)
        ELSE CHOOSE j \in nth : TRUE

\* C24: with data_file in the header, read() takes the data from the
\* detached file at the position after line_skip lines of that file (0
\* without line_skip) plus byte_skip (0 without it).
C24_DetachedOffset ==
    (phase = "read" /\ wrote.op = "write_detached" /\ wrote.ok)
    => /\ got.stage \in {"decode", "done"}
       /\ got.loc = Loc(wrote.data_file)
       /\ got.pos = LinesLength(DataFile, ODGet(wrote.hdr, S_line_skip, Num(0)).n)
                       + ODGet(wrote.hdr, S_byte_skip, Num(0)).n

\* line_skip = 1 and byte_skip = 1 on the bytes 1, 10, 7, 2: the data starts
\* at offset 3 and read() returns [2]
C24_Witness ==
    /\ phase = "read"
    /\ wrote.hdr = H_skips(Num(1), Num(1))
    /\ wrote.data = D_line
    /\ wrote.encoding = S_raw
    /\ got.ok
    /\ got.pos = 3
    /\ got.data.vals = <<2>>

---------------------------------------------------------------------------
(* SpecHex: write_detached() with the hex encoding, characters that are no *)
(* hexadecimal digits put into the data file, then read()                  *)

MaxNoise == 2

\* a space, a newline, a comma, and the letters g and Z
NoiseBytes == {32, 10, 44, 103, 90}

\* the byte b is put into the data file after its first at bytes; the bytes
\* put in are kept in wrote.lines
NoiseData(b, at) ==
    /\ phase = "written"
    /\ Len(wrote.lines) < MaxNoise
    /\ at <= Len(fs[Loc(wrote.data_file)])
    /\ fs' = [fs EXCEPT ![Loc(wrote.data_file)] =
                 SubSeq(@, 1, at) \o <<b>> \o SubSeq(@, at + 1, Len(@))]
    /\ wrote' = [wrote EXCEPT !.lines = Append(@, <<b>>)]
    /\ UNCHANGED <<got, phase, mergeVars, headerVars>>

HexNext ==
    \/ \E d \in {D_pair, D_wide} : WriteDetachedCall(F_header, F_data, H_none, d, S_hex)
    \/ \E b \in NoiseBytes, at \in 0..5 : NoiseData(b, at)
    \/ ReadCall

InitHex == MergeIdle /\ HeaderIdle /\ FileIdle

SpecHex == InitHex /\ [][HexNext]_vars

\* C25: a hex payload with characters that are no hexadecimal digits put
\* among its digits is read as the payload without them: read() returns
\* the array that was written.
C25_HexNoiseIgnored ==
    (phase = "read" /\ wrote.op = "write_detached" /\ wrote.encoding = S_hex
        /\ \A j \in 1..Len(wrote.lines) : ~IsHexByte(wrote.lines[j][1]))
    => (got.ok /\ got.data.vals = wrote.data.vals)

---------------------------------------------------------------------------
(* SpecPrepare: write() or write_detached() with headers that give some of *)
(* the fields _prepare_header fills in, then read_header()                 *)

H_dimension == <<[key |-> S_dimension, val |-> Num(7)]>>

H_float32 == <<[key |-> S_type, val |-> Str(S_float32)]>>

H_gzip == <<[key |-> S_encoding, val |-> Str(S_gzip)]>>

H_gz == <<[key |-> S_encoding, val |-> Str(S_gz)]>>

H_big == <<[key |-> S_endian, val |-> Str(S_big)]>>

\* every field given, after a field of the caller's own
H_all ==
    <<[key |-> R_n, val |-> Num(1)], [key |-> S_endian, val |-> Str(S_big)],
      [key |-> S_encoding, val |-> Str(S_raw)], [key |-> S_type, val |-> Str(S_float32)],
      [key |-> S_sizes, val |-> Arr(<<Num(3)>>)], [key |-> S_dimension, val |-> Num(7)],
      [key |-> S_jnrrd, val |-> Str(S_0005)]>>

PrepareHeaders ==
    {H_none, H_magic, H_dimension, H_sizes, H_float32, H_gzip, H_gz, H_big, H_all}

\* arrays of 0, 1 and 2 axes, and one in big-endian order
D_big == Array(DType(S_uint16, 2, ">"), <<2>>, <<1, 2>>)

PrepareArrays == {D_scalar, D_pair, D_grid, D_wide, D_big}

PrepareNext ==
    \/ \E h \in PrepareHeaders, d \in PrepareArrays, enc \in {S_raw, S_gzip} :
          WriteCall(F_file, h, d, enc)
    \/ \E h \in PrepareHeaders, d \in PrepareArrays, enc \in {S_raw, S_gzip} :
          WriteDetachedCall(F_file, F_data, h, d, enc)
    \/ ReadHeaderCall

InitPrepare == MergeIdle /\ HeaderIdle /\ FileIdle

SpecPrepare == InitPrepare /\ [][PrepareNext]_vars

\* the value of a field in the file: the caller's if the header given to
\* the call has the field, else the one stated
FieldWritten(key, filled) == ODGet(got.hdr, key, Null) = ODGet(wrote.hdr, key, filled)

\* C26: in the file write or write_detached made, jnrrd, dimension, sizes,
\* type, encoding and endian hold the caller's value where the header
\* given has the field, and else '0004', the number of axes of the array,
\* its shape, the name of its element type, the encoding argument and
\* little or big; and the header given is as it was before the call.
C26_PreparedFields ==
    (phase = "read" /\ wrote.op \in {"write", "write_detached"} /\ wrote.ok)
    => /\ got.ok
       /\ FieldWritten(S_jnrrd, Str(S_0004))
       /\ FieldWritten(S_dimension, Num(Len(wrote.data.shape)))
       /\ FieldWritten(S_sizes,
                       Arr([j \in 1..Len(wrote.data.shape) |-> Num(wrote.data.shape[j])]))
       /\ (~ODHas(wrote.hdr, S_dimension) /\ ~ODHas(wrote.hdr, S_sizes))
             => Len(ODGet(got.hdr, S_sizes, Null).e) = ODGet(got.hdr, S_dimension, Null).n
       /\ FieldWritten(S_type, Str(wrote.data.dtype.name))
       /\ FieldWritten(S_encoding, Str(wrote.encoding))
       /\ ODHas(got.hdr, S_endian)
       /\ ODHas(wrote.hdr, S_endian) => FieldWritten(S_endian, Null)
       /\ ~ODHas(wrote.hdr, S_endian) => ODGet(got.hdr, S_endian, Null) \in {Str(S_little), Str(S_big)}
       /\ wrote.after = wrote.hdr

\* write('f', {'dimension': 7}, [[1, 2]]): dimension is 7 and sizes [1, 2]
C26_Witness ==
    /\ phase = "read"
    /\ wrote.op = "write"
    /\ wrote.hdr = H_dimension
    /\ wrote.data = D_grid
    /\ got.ok
    /\ ODGet(got.hdr, S_dimension, Null) = Num(7)
    /\ ODGet(got.hdr, S_sizes, Null) = Arr(<<Num(1), Num(2)>>)
    /\ ODGet(got.hdr, S_jnrrd, Null) = Str(S_0004)

\* the encoding a name stands for
Codec(name) ==
    IF name \in {S_gzip, S_gz} THEN S_gzip
    ELSE IF name \in {S_bzip2, S_bz2} THEN S_bzip2
    ELSE IF name \in {S_ascii, S_text, S_txt} THEN S_ascii
    ELSE name

\* C27: the encoding field of the header of a file write or write_detached
\* made names the encoding the data was written with, which is the one of
\* the encoding argument.
C27_EncodingNamesPayload ==
    (phase = "read" /\ wrote.op \in {"write", "write_detached"} /\ wrote.ok)
    => /\ ODGet(got.hdr, S_encoding, Null).k = "str"
       /\ Codec(ODGet(got.hdr, S_encoding, Null).s) = Codec(wrote.encoding)
       /\ fs[Loc(wrote.data_file)] =
             (IF wrote.op = "write" THEN SubSeq(HeaderFile, 1, got.pos) ELSE <<>>)
                \o EncodeData(ODGet(got.hdr, S_encoding, Null).s, wrote.data).bytes

---------------------------------------------------------------------------
(* SpecAgain: write_detached(), read(), then write() or write_detached()   *)
(* of the header and the array that were read, and read() again            *)

\* write(filename, header, data, encoding) with the header and the array
\* read() returned
RewriteCall(filename, encoding) ==
    /\ phase = "read"
    /\ got.ok
    /\ LET w == Write(fs, filename, got.hdr, got.data, encoding) IN
         /\ fs' = w.files
         /\ wrote' = [Call("write", filename, filename, got.hdr, got.data, encoding, w.ok)
                         EXCEPT !.after = w.header]
    /\ phase' = "rewritten"
    /\ UNCHANGED <<got, mergeVars, headerVars>>

\* write_detached(header_file, data_file, header, data, encoding) with the
\* header and the array read() returned
RewriteDetachedCall(header_file, data_file, encoding) ==
    /\ phase = "read"
    /\ got.ok
    /\ LET w == WriteDetached(fs, header_file, data_file, got.hdr, got.data, encoding) IN
         /\ fs' = w.files
         /\ wrote' = [Call("write_detached", header_file, data_file, got.hdr, got.data,
                           encoding, w.ok)
                         EXCEPT !.after = w.header]
    /\ phase' = "rewritten"
    /\ UNCHANGED <<got, mergeVars, headerVars>>

\* the encoding of the header read, and raw, the default of the argument
AgainEncodings == {S_raw, ODGet(got.hdr, S_encoding, Str(S_raw)).s}

AgainNext ==
    \/ \E h \in SkipHeaders \cup {H_none}, d \in {D_pair, D_line}, enc \in {S_raw, S_gzip} :
          WriteDetachedCall(F_header, F_data, h, d, enc)
    \/ ReadCall
    \/ \E filename \in {F_file, <<"o", "/", "f">>}, enc \in AgainEncodings :
          RewriteCall(filename, enc)
    \/ \E enc \in AgainEncodings : RewriteDetachedCall(F_header, F_data, enc)

InitAgain == MergeIdle /\ HeaderIdle /\ FileIdle

SpecAgain == InitAgain /\ [][AgainNext]_vars

\* C28: the header and the array read() returned, given to write or
\* write_detached, make a file from which read() returns that array.
C28_RewriteRoundTrip ==
    (phase = "reread" /\ wrote.ok) => (got.ok /\ got.data = wrote.data)

\* C29: when a call of _set_nested_value returns, the value is found in the
\* tree by following the segments of the path from the root.
C29_ValueReachable ==
    (log # <<>> /\ lastOk)
    => Lookup(tree, ParseComponents(LastPath), 1) = [found |-> TRUE, v |-> LastValue]

\* C30: when write or write_detached is called with an encoding that is not
\* supported, the call raises and the file system is as it was before the
\* call, which is empty.
C30_FailedWriteNoFiles ==
    (phase # "new" /\ wrote.op \in {"write", "write_detached"}
        /\ wrote.encoding \notin Encodings)
    => (~wrote.ok /\ fs = NoFiles)

====
